---- MODULE Spec2Model ----
(***************************************************************************)
(* tofu v2 -- orchestrator (main.js), shape registry (registry.js), frame  *)
(* encoder (pipelines.js) and physics kernel (physics.wgsl).               *)
(*                                                                         *)
(* Host JavaScript is single threaded: every handler (a frame tick, a      *)
(* panel callback, the continuation of an await) runs to completion, so    *)
(* each one is one action.  An async goToShape activation is suspended at  *)
(* its two awaits (runNCA, assignTargetsGpu); the activations in flight    *)
(* are the sequence `tasks`.                                               *)
(*                                                                         *)
(* Numbers.  Time is counted in quanta of 1/QUANTA_PER_SEC seconds, so     *)
(* morph.t (a float in [0,1]) is the integer morph.t/MORPH_DURATION and    *)
(* morph.hold is a number of quanta.  The frame step dt (clamped to        *)
(* 0.033 s by the code) is an input drawn from 0..MaxDt quanta.  NDC       *)
(* coordinates are fixed point with FP units to 1.0.                       *)
(*                                                                         *)
(* Two specifications.  Spec is the host alone (every handler of main.js). *)
(* FrameSpec adds device.queue and the device: what a handler hands over   *)
(* joins the queue, and the device executes writes and passes in order     *)
(* (cs_main, cs_splat, cs_decay), for the first MaxFrames frames.  The     *)
(* sinusoidal wander force is a choice among bounded force fields.  The    *)
(* frame counter is kept modulo 2^FrameBits, which preserves frame & 1.    *)
(*                                                                         *)
(* Library calls are followed on their own, each in its own specification  *)
(* over the variable lib, with the host left as constructed (lib is idle   *)
(* in Spec and FrameSpec): MatchSpec (matchCentroids), OtSpec (the pairing *)
(* of assignTargetsGpu), ResolveSpec (resolveShape, getShape), SampleSpec  *)
(* (sampleFromDensity), NcaSpec (buildNCA, runNCA) and SplatSpec (the u32  *)
(* accumulators of cs_splat at one pixel, as two 16-bit limbs).  LostSpec  *)
(* is FrameSpec with a device that can be lost, CycleSpec is Spec with a   *)
(* history of the shapes the auto-cycle morphed to.                        *)
(***************************************************************************)
EXTENDS Integers, Sequences, FiniteSets, TLC

\* ------------------------------------------------------------------ bounds
QUANTA_PER_SEC == 2
MaxDt == 2
MaxHoldOver == 1
CycleLen == 2
NAtoms == 2
FP == 4
FrameBits == 1
DENSITY_W == 3
DENSITY_H == 2
MaxFrames == 3
MaxQueue == 6
GRID_SIZE == 2
RAND_STEPS == 2
K == 3
OT_N == 3
InputLen == 3
U_STEPS == 4
MaxRuns == 2
MaxOnPixel == 258
KM_N == 4
KM_K == 2
K_ITERS == 2
SCALE == 8
BATCH == 100000
MaxNcaSteps == 4
MaxInputs == 1

\* --------------------------------------------------------------- constants
\* const MORPH_DURATION = 2.0 (seconds), in quanta
MORPH_DURATION == 2 * QUANTA_PER_SEC
\* const HOLD_DURATION = 3.5 (seconds), in quanta
HOLD_DURATION == (7 * QUANTA_PER_SEC) \div 2

Atoms == 1..NAtoms
Pixels == 0..(DENSITY_W * DENSITY_H - 1)

\* ------------------------------------------------------- registry.js (v2)
\* Object.keys(REGISTRY), in insertion order; strings are character tuples.
SHAPE_NAMES ==
  << <<"c","i","r","c","l","e">>,
     <<"r","i","n","g">>,
     <<"s","t","a","r">>,
     <<"s","t","a","r","6">>,
     <<"s","t","a","r","8">>,
     <<"d","i","a","m","o","n","d">>,
     <<"t","r","i","a","n","g","l","e">>,
     <<"c","r","o","s","s">>,
     <<"s","p","i","r","a","l">>,
     <<"h","e","a","r","t">>,
     <<"w","a","v","e">>,
     <<"h","e","x","g","r","i","d">>,
     <<"l","i","s","s","a","j","o","u","s">>,
     <<"p","r","e","t","z","e","l">>,
     <<"t","r","e","f","o","i","l">>,
     <<"r","o","s","e">>,
     <<"r","o","s","e","3">>,
     <<"l","o","r","e","n","z">>,
     <<"r","o","s","s","l","e","r">>,
     <<"i","n","t","e","r","f","e","r","e","n","c","e">>,
     <<"g","a","l","a","x","y">>,
     <<"j","u","l","i","a">>,
     <<"d","r","a","g","o","n">>,
     <<"r","a","b","b","i","t">>,
     <<"m","a","n","d","e","l","b","r","o","t">>,
     <<"d","n","a">>,
     <<"n","a","n","o","t","u","b","e">>,
     <<"c","r","y","s","t","a","l">>,
     <<"g","r","a","p","h","e","n","e">> >>

ALIASES ==
  << <<<<"d","i","s","c">>, <<"c","i","r","c","l","e">>>>,
     <<<<"d","o","n","u","t">>, <<"r","i","n","g">>>>,
     <<<<"a","n","n","u","l","u","s">>, <<"r","i","n","g">>>>,
     <<<<"s","q","u","a","r","e">>, <<"d","i","a","m","o","n","d">>>>,
     <<<<"p","l","u","s">>, <<"c","r","o","s","s">>>>,
     <<<<"h","e","x">>, <<"h","e","x","g","r","i","d">>>>,
     <<<<"b","u","t","t","e","r","f","l","y">>, <<"l","o","r","e","n","z">>>>,
     <<<<"a","t","t","r","a","c","t","o","r">>, <<"l","o","r","e","n","z">>>>,
     <<<<"c","h","a","o","s">>, <<"r","o","s","s","l","e","r">>>>,
     <<<<"s","c","r","o","l","l">>, <<"r","o","s","s","l","e","r">>>>,
     <<<<"f","r","i","n","g","e","s">>, <<"i","n","t","e","r","f","e","r","e","n","c","e">>>>,
     <<<<"d","i","f","f","r","a","c","t","i","o","n">>, <<"i","n","t","e","r","f","e","r","e","n","c","e">>>>,
     <<<<"w","a","v","e","s">>, <<"i","n","t","e","r","f","e","r","e","n","c","e">>>>,
     <<<<"f","r","a","c","t","a","l">>, <<"j","u","l","i","a">>>>,
     <<<<"l","i","g","h","t","n","i","n","g">>, <<"j","u","l","i","a">>>>,
     <<<<"d","o","u","b","l","e","h","e","l","i","x">>, <<"d","n","a">>>>,
     <<<<"d","n","a","h","e","l","i","x">>, <<"d","n","a">>>>,
     <<<<"t","u","b","e">>, <<"n","a","n","o","t","u","b","e">>>>,
     <<<<"c","n","t">>, <<"n","a","n","o","t","u","b","e">>>>,
     <<<<"c","a","r","b","o","n">>, <<"n","a","n","o","t","u","b","e">>>>,
     <<<<"c","u","b","i","c">>, <<"c","r","y","s","t","a","l">>>>,
     <<<<"b","c","c">>, <<"c","r","y","s","t","a","l">>>>,
     <<<<"l","a","t","t","i","c","e">>, <<"c","r","y","s","t","a","l">>>>,
     <<<<"c","a","r","b","o","n","g","r","i","d">>, <<"g","r","a","p","h","e","n","e">>>> >>

\* Properties every object literal inherits from Object.prototype whose names
\* are unchanged by toLowerCase(): REGISTRY[k] and ALIASES[k] are truthy for them.
OBJECT_PROTO_KEYS ==
  { <<"c","o","n","s","t","r","u","c","t","o","r">>,
    <<"_","_","p","r","o","t","o","_","_">> }

UPPER == <<"A","B","C","D","E","F","G","H","I","J","K","L","M",
           "N","O","P","Q","R","S","T","U","V","W","X","Y","Z">>
LOWER == <<"a","b","c","d","e","f","g","h","i","j","k","l","m",
           "n","o","p","q","r","s","t","u","v","w","x","y","z">>
WHITESPACE == {" ", "\t", "\n"}

SeqRange(s) == { s[i] : i \in 1..Len(s) }

\* String.prototype.toLowerCase, one character
LowerChar(c) ==
  IF \E i \in 1..Len(UPPER) : UPPER[i] = c
    THEN LOWER[CHOOSE i \in 1..Len(UPPER) : UPPER[i] = c]
    ELSE c

\* input.toLowerCase().trim().replace(/\s+/g, '')
RECURSIVE Normalise(_)
Normalise(s) ==
  IF s = <<>> THEN <<>>
  ELSE IF Head(s) \in WHITESPACE THEN Normalise(Tail(s))
  ELSE <<LowerChar(Head(s))>> \o Normalise(Tail(s))

\* String.prototype.startsWith
StartsWith(n, k) == Len(k) <= Len(n) /\ SubSeq(n, 1, Len(k)) = k

\* REGISTRY[k] is truthy
RegistryHas(k) == k \in SeqRange(SHAPE_NAMES) \/ k \in OBJECT_PROTO_KEYS

\* ALIASES[k] is truthy
AliasHas(k) == \E i \in 1..Len(ALIASES) : ALIASES[i][1] = k

AliasOf(k) == ALIASES[CHOOSE i \in 1..Len(ALIASES) : ALIASES[i][1] = k][2]

\* SHAPE_NAMES.find(n => n.startsWith(k)) ?? 'circle'
PartialMatch(k) ==
  IF \E i \in 1..Len(SHAPE_NAMES) : StartsWith(SHAPE_NAMES[i], k)
    THEN SHAPE_NAMES[CHOOSE i \in 1..Len(SHAPE_NAMES) :
                       /\ StartsWith(SHAPE_NAMES[i], k)
                       /\ \A j \in 1..(i-1) : ~StartsWith(SHAPE_NAMES[j], k)]
    ELSE <<"c","i","r","c","l","e">>

resolveShape(input) ==
  LET k == Normalise(input) IN
  IF RegistryHas(k) THEN k
  ELSE IF AliasHas(k) THEN AliasOf(k)
  ELSE PartialMatch(k)

\* ------------------------------------------------------------ main.js (v2)
VARIABLES
  morph,           \* { t, hold }
  simData,         \* Float32Array(4): dt, has_targets, morph_t (time is not modelled)
  userControlled,
  shapeIdx,
  transitioning,
  tasks,           \* goToShape activations suspended at an await
  cpuSource,
  cpuTarget,
  frame,
  hud,             \* panel texts: status, phase, response
  gpu,             \* queue-timeline contents of the buffers only the host writes
  issued,          \* the commands most recently handed to device.queue, in order
  userAsked,       \* history: goToShape let a submit in and no clear came since
  queue,           \* device.queue: commands handed over and not yet executed
  dev,             \* device-timeline contents of the buffers, and pass history
  lib              \* a library call followed on its own (idle in Spec and FrameSpec)

hostVars == <<morph, simData, userControlled, shapeIdx, transitioning, tasks,
              cpuSource, cpuTarget, frame, hud, gpu, issued, userAsked>>

\* the library calls that are followed on their own, outside the orchestrator
libVars == <<lib>>

\* const AUTO_CYCLE = [...SHAPE_NAMES], cut to its first CycleLen names
AUTO_CYCLE == SubSeq(SHAPE_NAMES, 1, CycleLen)

\* seedAtoms: (Math.random() * 2 - 1) * 0.85 on each axis
SEED_MAX == (85 * FP) \div 100
Odd(i) == i % 2 = 1

\* the seed scatters Init draws from: one point of the seed box per atom
SeedArrays ==
  { [i \in Atoms |-> IF Odd(i) THEN <<-SEED_MAX, SEED_MAX>> ELSE <<SEED_MAX, 0>>],
    [i \in Atoms |-> IF Odd(i) THEN <<0, -SEED_MAX>> ELSE <<-SEED_MAX, -SEED_MAX>>] }

RECURSIVE Sum(_, _)
Sum(g, n) == IF n = 0 THEN 0 ELSE g[n] + Sum(g, n - 1)

\* sampleFromDensity: ((col + Math.random()) / W) * 2 - 1 for a cell of a
\* GRID_SIZE grid; r counts RAND_STEPS-ths, and r = RAND_STEPS is a value
\* below 1 that the Float32Array store rounds up
sampleCoord(cell, r) == (2 * FP * (cell * RAND_STEPS + r)) \div (GRID_SIZE * RAND_STEPS) - FP

\* the sampled target cloud handed to assignTargetsGpu
rawTgt ==
  [i \in Atoms |-> IF Odd(i)
     THEN << sampleCoord(0, 0), sampleCoord(GRID_SIZE - 1, RAND_STEPS) >>
     ELSE << sampleCoord(GRID_SIZE - 1, RAND_STEPS), sampleCoord(0, 1) >>]

\* a k-means centroid: the mean of its members (here: of the whole cloud)
Centroid(positions) ==
  << (2 * Sum([i \in Atoms |-> positions[i][1]], NAtoms) + NAtoms) \div (2 * NAtoms),
     (2 * Sum([i \in Atoms |-> positions[i][2]], NAtoms) + NAtoms) \div (2 * NAtoms) >>

\* the arrays assignTargetsGpu can hand back: for each atom a sampled position
\* of its matched cluster, or the centroid of an empty cluster
TargetArrays ==
  { [i \in Atoms |-> rawTgt[NAtoms + 1 - i]],
    [i \in Atoms |-> IF i = 1 THEN Centroid(rawTgt) ELSE rawTgt[i]] }

\* texts the panel can submit (trimmed, non-empty)
Texts == { <<"D","N","A">>, <<"g","i","b","b","e","r","i","s","h">>,
           <<"c","o","n","s","t","r","u","c","t","o","r">> }

Min(a, b) == IF a < b THEN a ELSE b

\* Math.round(morph.t * 100)
MorphPercent(t) == (200 * t + MORPH_DURATION) \div (2 * MORPH_DURATION)

\* morph.hold.toFixed(1), in tenths of a second
HoldTenths(h) == (20 * h + QUANTA_PER_SEC) \div (2 * QUANTA_PER_SEC)

Write(buf, data) == [op |-> "writeBuffer", buf |-> buf, data |-> data]

\* new Uint8Array(DENSITY_BYTES), new Uint8Array(VEL_BYTES): all zero
DENSITY_CLEAR == [p \in Pixels |-> 0]
VEL_CLEAR == [p \in Pixels |-> 0]

\* the submissions of runNCA and of runKMeans: they touch no frame buffer
NcaSubmit == [op |-> "submit", passes |-> << [pass |-> "nca"] >>]
KMeansSubmit == [op |-> "submit", passes |-> << [pass |-> "kmeans"] >>]

\* a physics bind group reading and writing the same buffer
physicsBGsInPlace(slot) == [src |-> slot, dst |-> slot]

\* pipelines.js: bind groups built once for both ping-pong slots
physicsBGs(slot) == [src |-> slot, dst |-> 1 - slot]
splatBGs(slot) == [atoms |-> 1 - slot]

\* encodeFrame(enc, pipelines, view, slot): the passes of one frame, in order
encodeFrame(slot) ==
  << [pass |-> "physics", bg |-> physicsBGs(slot)],
     [pass |-> "splat",   bg |-> splatBGs(slot)],
     [pass |-> "decay"],
     [pass |-> "render"] >>

\* a frame handed over without the two clears
FrameCommandsNoClear(sim, slot) ==
  << Write("simBuf", sim),
     [op |-> "submit", passes |-> encodeFrame(slot)] >>

\* tick: what one frame hands to the queue
FrameCommands(sim, slot) ==
  << Write("simBuf", sim),
     Write("densityBuf", DENSITY_CLEAR),
     Write("velBuf", VEL_CLEAR),
     [op |-> "submit", passes |-> encodeFrame(slot)] >>

\* the reentrancy guard left out
goToShapeNeverRejects == FALSE

\* if (transitioning) return null;
goToShapeRejects == transitioning

\* getShape(canonical): what the call yields.  _resolve keeps a key for which
\* REGISTRY[key] is truthy; REGISTRY[key]() is a density grid for a registered
\* shape, an empty object for "constructor" (Object()), and a TypeError for
\* "__proto__" (Object.prototype is not callable).
getShape(canonical) ==
  IF canonical \in SeqRange(SHAPE_NAMES) THEN "grid"
  ELSE IF canonical = <<"c","o","n","s","t","r","u","c","t","o","r">> THEN "object"
  ELSE "throws"

\* resolveShape on the names goToShape is called with (the panel's texts and
\* the names of the cycle), computed once
Resolved == [name \in Texts \cup SeqRange(AUTO_CYCLE) |-> resolveShape(name)]

\* goToShape(name) up to its first suspension: what the call leaves behind.
\* A goal that is no Float32Array makes runNCA reject at its first writeBuffer;
\* the rejection is delivered, and the finally block run, before any other
\* handler runs, so such a call is over within the step.
goToShape(name, origin, phase) ==
  LET canonical == Resolved[name]
      goal == getShape(canonical)
  IN
  IF goToShapeRejects
    THEN [accepted |-> FALSE, failed |-> FALSE, transitioning |-> transitioning,
          tasks |-> tasks, phase |-> phase, issued |-> <<>>]
    ELSE IF goal = "throws"
    THEN [accepted |-> TRUE, failed |-> TRUE, transitioning |-> FALSE,
          tasks |-> tasks, phase |-> phase, issued |-> <<>>]
    ELSE IF goal = "object"
    THEN [accepted |-> TRUE, failed |-> TRUE, transitioning |-> FALSE,
          tasks |-> tasks, phase |-> <<"nca · growing">>, issued |-> <<>>]
    ELSE [accepted |-> TRUE, failed |-> FALSE, transitioning |-> TRUE,
          tasks |-> Append(tasks, [pc |-> "nca", canonical |-> canonical,
                                   origin |-> origin]),
          phase |-> <<"nca · growing">>,
          issued |-> << NcaSubmit >>]

\* advanceCycle without the step of the index
NextShapeIdxStuck == shapeIdx

\* advanceCycle: the next index of the cycle
NextShapeIdx == (shapeIdx + 1) % Len(AUTO_CYCLE)

advanceCycle(origin, phase) == goToShape(AUTO_CYCLE[NextShapeIdx + 1], origin, phase)

\* the morph step without its cap
advanceMorphTUncapped(t, dt) == t + dt

\* morph.t = Math.min(morph.t + dt / MORPH_DURATION, 1.0)
advanceMorphT(t, dt) == Min(t + dt, MORPH_DURATION)

\* the auto-advance test without the hold timer
autoAdvanceIgnoringHold(hold) == ~userControlled /\ ~transitioning

\* a tick that never advances
autoAdvanceNever(hold) == FALSE

\* if (!userControlled && !transitioning && morph.hold >= HOLD_DURATION)
autoAdvance(hold) == ~userControlled /\ ~transitioning /\ hold >= HOLD_DURATION

\* function tick(), one animation frame with clamped step dt
Tick(dt) ==
  LET hasTargets == simData.has_targets = 1
      inMorph == hasTargets /\ morph.t < MORPH_DURATION
      inHold  == hasTargets /\ ~(morph.t < MORPH_DURATION)
      t1      == IF inMorph THEN advanceMorphT(morph.t, dt) ELSE morph.t
      hold1   == IF inHold THEN morph.hold + dt ELSE morph.hold
      phase1  == IF inMorph THEN <<"morph", MorphPercent(t1)>>
                 ELSE IF inHold THEN <<"hold", HoldTenths(hold1)>>
                 ELSE hud.phase
      advance == inHold /\ autoAdvance(hold1)
      call    == advanceCycle("auto", phase1)
      sim1    == [dt |-> dt, has_targets |-> simData.has_targets,
                  morph_t |-> IF hasTargets THEN t1 ELSE simData.morph_t]
  IN
  /\ inHold => morph.hold + dt <= HOLD_DURATION + MaxHoldOver
  /\ morph' = [t |-> t1, hold |-> hold1]
  /\ simData' = sim1
  /\ shapeIdx' = IF advance THEN NextShapeIdx ELSE shapeIdx
  /\ transitioning' = IF advance THEN call.transitioning ELSE transitioning
  /\ tasks' = IF advance THEN call.tasks ELSE tasks
  /\ hud' = [hud EXCEPT !.phase = IF advance THEN call.phase ELSE phase1]
  /\ gpu' = [gpu EXCEPT !.simBuf = sim1]
  /\ issued' = (IF advance THEN call.issued ELSE <<>>)
                 \o FrameCommands(sim1, frame % 2)
  /\ frame' = (frame + 1) % (2 ^ FrameBits)
  /\ UNCHANGED <<userControlled, cpuSource, cpuTarget, userAsked>>

\* onSubmit(text): the call of goToShape; its continuation runs in OtDone
Submit(text) ==
  LET call == goToShape(text, "submit", hud.phase) IN
  /\ transitioning' = call.transitioning
  /\ tasks' = call.tasks
  /\ hud' = [hud EXCEPT !.phase = call.phase]
  /\ issued' = IF call.issued # <<>> THEN call.issued ELSE issued
  /\ userAsked' = (userAsked \/ call.accepted)
  /\ UNCHANGED <<morph, simData, userControlled, shapeIdx, cpuSource, cpuTarget,
                 frame, gpu>>

\* panel.js: empty submit or Escape hides the response, then onClear()
Clear ==
  LET call == advanceCycle("auto", hud.phase) IN
  /\ userControlled' = FALSE
  /\ shapeIdx' = NextShapeIdx
  /\ transitioning' = call.transitioning
  /\ tasks' = call.tasks
  /\ hud' = [hud EXCEPT !.phase = call.phase, !.visible = FALSE]
  /\ issued' = IF call.issued # <<>> THEN call.issued ELSE issued
  /\ userAsked' = FALSE
  /\ UNCHANGED <<morph, simData, cpuSource, cpuTarget, frame, gpu>>

\* ------------------------------------------------------------ the device
RoundDiv(n, d) == (2 * n + d) \div (2 * d)
ISqrt(n) == CHOOSE k \in 0..n : k * k <= n /\ (k + 1) * (k + 1) > n

\* physics.wgsl: const BOUND = 0.92, const MAX_VEL = 0.55, in fixed point
BOUND == (92 * FP) \div 100
MAX_VEL == (55 * FP) \div 100
\* the sinusoidal force field: |fx|, |fy| <= 1.4 * 0.055, rounded up
FORCE_MAX == (77 * FP + 999) \div 1000

\* the force fields a frame can meet (sin of time and atom index)
ForceFields ==
  { [i \in Atoms |-> IF Odd(i) THEN <<FORCE_MAX, FORCE_MAX>> ELSE <<-FORCE_MAX, 0>>],
    [i \in Atoms |-> IF Odd(i) THEN <<-FORCE_MAX, 0>> ELSE <<FORCE_MAX, -FORCE_MAX>>] }

\* the last line of the wander branch without its clamp
clampNDCOff(x) == x

\* clamp(x, -1.0, 1.0)
clampNDC(x) == IF x < -FP THEN -FP ELSE IF x > FP THEN FP ELSE x

\* te = t * t * (3.0 - 2.0 * t) with t = clamp(morph_t, 0, 1), as a fraction
\* of MORPH_DURATION^3
SmoothDen == MORPH_DURATION * MORPH_DURATION * MORPH_DURATION
smoothstep(morph_t) ==
  LET m == IF morph_t < 0 THEN 0
           ELSE IF morph_t > MORPH_DURATION THEN MORPH_DURATION ELSE morph_t
  IN m * m * (3 * MORPH_DURATION - 2 * m)

\* mix(e1, e2, te) = e1 * (1 - te) + e2 * te
mix(e1, e2, te) == RoundDiv(e1 * (SmoothDen - te) + e2 * te, SmoothDen)

\* the morph branch blending from the atom's previous position
morphAtomFromPrev(a, sp, tp, morph_t) ==
  LET te == smoothstep(morph_t) IN
  [pos |-> << mix(a.pos[1], tp[1], te), mix(a.pos[2], tp[2], te) >>,
   vel |-> << RoundDiv((tp[1] - a.pos[1]) * (SmoothDen - te), SmoothDen),
              RoundDiv((tp[2] - a.pos[2]) * (SmoothDen - te), SmoothDen) >>]

\* cs_main, morph mode: a.pos = mix(sp, tp, te); a.vel = (tp - sp) * (1 - te)
morphAtom(a, sp, tp, morph_t) ==
  LET te == smoothstep(morph_t) IN
  [pos |-> << mix(sp[1], tp[1], te), mix(sp[2], tp[2], te) >>,
   vel |-> << RoundDiv((tp[1] - sp[1]) * (SmoothDen - te), SmoothDen),
              RoundDiv((tp[2] - sp[2]) * (SmoothDen - te), SmoothDen) >>]

\* cs_main, wander mode: wall repulsion, damped velocity, speed clamp, step
wanderAtom(a, dt, f) ==
  LET wall(c) == IF a.pos[c] < -BOUND THEN RoundDiv(11 * (-BOUND - a.pos[c]), 2)
                 ELSE IF a.pos[c] > BOUND
                   THEN -RoundDiv(11 * (a.pos[c] - BOUND), 2)
                 ELSE 0
      v1(c) == RoundDiv((a.vel[c] * QUANTA_PER_SEC + (f[c] + wall(c)) * dt) * 992,
                        1000 * QUANTA_PER_SEC)
      spd2 == v1(1) * v1(1) + v1(2) * v1(2)
      v2(c) == IF spd2 > MAX_VEL * MAX_VEL
                 THEN RoundDiv(v1(c) * MAX_VEL, ISqrt(spd2))
                 ELSE v1(c)
      step(c) == clampNDC(a.pos[c] + RoundDiv(v2(c) * dt, QUANTA_PER_SEC))
  IN [pos |-> << step(1), step(2) >>, vel |-> << v2(1), v2(2) >>]

\* cs_main for one atom
cs_main(a, params, sp, tp, f) ==
  IF params.has_targets = 1
    THEN morphAtom(a, sp, tp, params.morph_t)
    ELSE wanderAtom(a, params.dt, f)

\* goToShape resumes after `await runNCA(...)`: sample, start the OT by calling
\* assignTargetsGpu(device, ot, cpuSource, rawTgt); srcPos is the source cloud
\* that call uploads for its first k-means run
NcaDone(i) ==
  /\ i \in 1..Len(tasks)
  /\ tasks[i].pc = "nca"
  /\ tasks' = [tasks EXCEPT ![i] = [pc |-> "ot", canonical |-> @.canonical,
                                     origin |-> @.origin, srcPos |-> cpuSource]]
  /\ hud' = [hud EXCEPT !.phase = <<"ot · k-means">>]
  /\ issued' = << KMeansSubmit >>
  /\ UNCHANGED <<morph, simData, userControlled, shapeIdx, transitioning,
                 cpuSource, cpuTarget, frame, gpu, userAsked>>

RemoveAt(s, i) == SubSeq(s, 1, i - 1) \o SubSeq(s, i + 1, Len(s))

\* goToPositions keeping the old source instead of copying the target into it
goToPositionsKeepSource == cpuSource

\* goToPositions(newTargets, label): the new CPU mirrors
goToPositionsSource == cpuTarget
goToPositionsTarget(newTargets) == newTargets

\* goToShape resumes after `await assignTargetsGpu(...)`: goToPositions, the
\* finally block, and (for a submit) the continuation of onSubmit
OtDone(i, assigned) ==
  /\ i \in 1..Len(tasks)
  /\ tasks[i].pc = "ot"
  /\ cpuSource' = goToPositionsSource
  /\ cpuTarget' = goToPositionsTarget(assigned)
  /\ gpu' = [gpu EXCEPT !.sourceBuf = cpuSource', !.targetBuf = cpuTarget']
  /\ issued' = << Write("sourceBuf", cpuSource'), Write("targetBuf", cpuTarget') >>
  /\ morph' = [t |-> 0, hold |-> 0]
  /\ simData' = [simData EXCEPT !.has_targets = 1, !.morph_t = 0]
  /\ transitioning' = FALSE
  /\ tasks' = RemoveAt(tasks, i)
  /\ userControlled' = IF tasks[i].origin = "submit" THEN TRUE ELSE userControlled
  /\ hud' = IF tasks[i].origin = "submit"
              THEN [hud EXCEPT !.status = tasks[i].canonical,
                               !.response = tasks[i].canonical, !.visible = TRUE]
              ELSE [hud EXCEPT !.status = tasks[i].canonical]
  /\ UNCHANGED <<shapeIdx, frame, userAsked>>

\* splat.wgsl: bilinear weights in x256 fixed point; speed in 0..65535
WEIGHT_ONE == 256
SPEED_ONE == 65535
\* decay.wgsl: const DECAY = 0.88, in hundredths
DECAY_PCT == 88

\* fx = clamp((p.x * 0.5 + 0.5) * W, 0, W - 2), in units of 1 / (2 FP)
SplatCoord(x, n) ==
  LET raw == (x + FP) * n
      hi  == (n - 2) * 2 * FP
  IN IF raw < 0 THEN 0 ELSE IF raw > hi THEN hi ELSE raw

\* cs_splat for one atom: what it adds to density_buf[p]
SplatWeight(a, p) ==
  LET fx  == SplatCoord(a.pos[1], DENSITY_W)
      fy  == SplatCoord(a.pos[2], DENSITY_H)
      tx0 == fx \div (2 * FP)
      ty0 == fy \div (2 * FP)
      wx1 == ((WEIGHT_ONE * fx) \div (2 * FP)) - WEIGHT_ONE * tx0
      wy1 == ((WEIGHT_ONE * fy) \div (2 * FP)) - WEIGHT_ONE * ty0
      wx0 == WEIGHT_ONE - wx1
      wy0 == WEIGHT_ONE - wy1
  IN   (IF p = ty0 * DENSITY_W + tx0 THEN (wx0 * wy0) \div WEIGHT_ONE ELSE 0)
     + (IF p = ty0 * DENSITY_W + tx0 + 1 THEN (wx1 * wy0) \div WEIGHT_ONE ELSE 0)
     + (IF p = (ty0 + 1) * DENSITY_W + tx0 THEN (wx0 * wy1) \div WEIGHT_ONE ELSE 0)
     + (IF p = (ty0 + 1) * DENSITY_W + tx0 + 1 THEN (wx1 * wy1) \div WEIGHT_ONE ELSE 0)

\* su = u32(clamp(length(vel) / 0.55, 0, 1) * 65535)
SplatSpeed(a) ==
  LET len == ISqrt(a.vel[1] * a.vel[1] + a.vel[2] * a.vel[2])
      su  == (len * 100 * SPEED_ONE) \div (55 * FP)
  IN Min(su, SPEED_ONE)

\* the whole splat pass over one atom buffer, added to the accumulators
cs_splat_density(atoms, density) ==
  [p \in Pixels |-> density[p] + Sum([i \in Atoms |-> SplatWeight(atoms[i], p)], NAtoms)]
cs_splat_vel(atoms, vel) ==
  [p \in Pixels |->
     vel[p] + Sum([i \in Atoms |-> SplatSpeed(atoms[i]) * SplatWeight(atoms[i], p)],
                  NAtoms)]

\* cs_decay: trail_buf[i] = trail_buf[i] * DECAY + f32(density_buf[i])
cs_decay(trail, density) ==
  [p \in Pixels |-> RoundDiv(trail[p] * DECAY_PCT, 100) + density[p]]

Seeded(positions) == [i \in Atoms |-> [pos |-> positions[i], vel |-> <<0, 0>>]]

\* the device after allocateBuffers (zero filled), seedAtoms and the first
\* writes of sourceBuf and targetBuf
DevInit(seed) ==
  [atomBufs   |-> [slot \in 0..1 |-> Seeded(seed)],
   sourceBuf  |-> seed,
   targetBuf  |-> seed,
   simBuf     |-> [dt |-> 0, has_targets |-> 0, morph_t |-> 0],
   densityBuf |-> [p \in Pixels |-> 0],
   velBuf     |-> [p \in Pixels |-> 0],
   trailBuf   |-> [p \in Pixels |-> 0],
   frames     |-> 0,      \* history: frame submissions completed
   written    |-> -1,     \* history: the slot the last physics pass wrote
   writtenIn  |-> -1,     \* history: the frame of that physics pass
   mode       |-> [slot \in 0..1 |-> "none"]]
                          \* history: the branch of the pass that wrote a slot

QHead == Head(queue)
HeadPass == QHead.passes[1]
HeadIs(pass) == queue # <<>> /\ QHead.op = "submit" /\ HeadPass.pass = pass
AfterPass ==
  IF Len(QHead.passes) = 1 THEN Tail(queue)
  ELSE << [QHead EXCEPT !.passes = Tail(@)] >> \o Tail(queue)

\* the queue executes a writeBuffer
DevWrite ==
  /\ queue # <<>> /\ QHead.op = "writeBuffer"
  /\ dev' = [dev EXCEPT ![QHead.buf] = QHead.data]
  /\ queue' = Tail(queue)
  /\ UNCHANGED <<hostVars, libVars>>

\* the physics pass: cs_main over every atom, from bg.src into bg.dst
DevPhysics(field) ==
  /\ HeadIs("physics")
  /\ LET bg == HeadPass.bg IN
     dev' = [dev EXCEPT
       !.atomBufs[bg.dst] =
          [i \in Atoms |-> cs_main(dev.atomBufs[bg.src][i], dev.simBuf,
                                   dev.sourceBuf[i], dev.targetBuf[i], field[i])],
       !.written = bg.dst,
       !.writtenIn = dev.frames,
       !.mode[bg.dst] = IF dev.simBuf.has_targets = 1 THEN "morph" ELSE "wander"]
  /\ queue' = AfterPass
  /\ UNCHANGED <<hostVars, libVars>>

\* the splat pass: atomic adds into density_buf and vel_buf
DevSplat ==
  /\ HeadIs("splat")
  /\ LET atoms == dev.atomBufs[HeadPass.bg.atoms] IN
     dev' = [dev EXCEPT !.densityBuf = cs_splat_density(atoms, dev.densityBuf),
                        !.velBuf = cs_splat_vel(atoms, dev.velBuf)]
  /\ queue' = AfterPass
  /\ UNCHANGED <<hostVars, libVars>>

\* the decay pass
DevDecay ==
  /\ HeadIs("decay")
  /\ dev' = [dev EXCEPT !.trailBuf = cs_decay(dev.trailBuf, dev.densityBuf)]
  /\ queue' = AfterPass
  /\ UNCHANGED <<hostVars, libVars>>

\* the render pass reads trail, vel and density and ends the frame
DevRender ==
  /\ HeadIs("render")
  /\ dev' = [dev EXCEPT !.frames = @ + 1]
  /\ queue' = AfterPass
  /\ UNCHANGED <<hostVars, libVars>>

\* an NCA or k-means submission: no frame buffer is bound
DevCompute ==
  /\ queue # <<>> /\ QHead.op = "submit" /\ HeadPass.pass \in {"nca", "kmeans"}
  /\ queue' = AfterPass
  /\ UNCHANGED <<hostVars, dev, libVars>>

\* lib when no library call is followed
LibIdleValue == [pc |-> "idle"]

\* the state after main() has run up to its first await inside advanceCycle()
HostInit ==
  /\ morph = [t |-> 0, hold |-> 0]
  /\ simData = [dt |-> 0, has_targets |-> 0, morph_t |-> 0]
  /\ userControlled = FALSE
  /\ shapeIdx = 0
  /\ transitioning = TRUE
  /\ tasks = << [pc |-> "nca", canonical |-> resolveShape(AUTO_CYCLE[1]),
                 origin |-> "auto"] >>
  /\ cpuSource \in SeedArrays
  /\ cpuTarget = cpuSource
  /\ frame = 0
  /\ hud = [status |-> <<>>, phase |-> <<"nca · growing">>,
            response |-> <<>>, visible |-> FALSE]
  /\ gpu = [sourceBuf |-> cpuSource, targetBuf |-> cpuTarget,
            simBuf |-> [dt |-> 0, has_targets |-> 0, morph_t |-> 0]]
  /\ issued = << NcaSubmit >>
  /\ userAsked = FALSE
  /\ queue = issued
  /\ dev = DevInit(cpuSource)

\* no library call is followed on its own
LibIdle == lib = LibIdleValue

Init == HostInit /\ LibIdle

\* the orchestrator as constructed and left alone, with one seed
Parked == HostInit /\ cpuSource = CHOOSE seed \in SeedArrays : TRUE

\* ------------------------------------------------------------ ot_gpu.js
\* cluster indices [0,K) and atom indices [0,OT_N)
Clusters == 0..(K - 1)
OtAtoms == 0..(OT_N - 1)

\* centroid coordinates a k-means run can return: coincident centroids, and
\* distinct centroids on one ray from the mean, are among the combinations
CentroidPoints == { <<0, 0>>, <<1, 0>>, <<3, 0>>, <<0, 1>> }

\* what runKMeans resolves to, with the centroids on two points
KMeansPoints == { <<0, 0>>, <<1, 0>> }

KMeansResults ==
  [centroids : [Clusters -> KMeansPoints], labels : [OtAtoms -> Clusters]]

\* Math.atan2(dy, dx) lies in (-pi, pi]: below the x axis, on its positive
\* half (atan2(0, 0) is 0), above it, on its negative half
AngleSector(v) ==
  IF v[2] < 0 THEN 0
  ELSE IF v[2] > 0 THEN 2
  ELSE IF v[1] >= 0 THEN 1 ELSE 3

\* atan2 of v is smaller than atan2 of w
AngleBefore(v, w) ==
  \/ AngleSector(v) < AngleSector(w)
  \/ /\ AngleSector(v) = AngleSector(w)
     /\ AngleSector(v) \in {0, 2}
     /\ v[1] * w[2] - v[2] * w[1] > 0

\* sortByAngle, with the centre passed as the coordinate sums (n times the
\* mean), so that n * pos[i] - sum has the direction of pos[i] - mean;
\* Array.prototype.sort is stable: equal angles keep index order
sortByAngle(pos, n, sx, sy) ==
  LET v(i) == << n * pos[i][1] - sx, n * pos[i][2] - sy >>
      Precedes(j, i) == \/ AngleBefore(v(j), v(i))
                        \/ ~AngleBefore(v(i), v(j)) /\ j < i
      Place(i) == Cardinality({ j \in 0..(n - 1) : Precedes(j, i) })
  IN [rank \in 0..(n - 1) |-> CHOOSE i \in 0..(n - 1) : Place(i) = rank]

RECURSIVE SumOver(_, _, _)
SumOver(pos, c, n) == IF n = 0 THEN 0 ELSE pos[n - 1][c] + SumOver(pos, c, n - 1)

\* every source centroid takes the target centroid nearest to it
matchCentroidsNearest(srcC, tgtC) ==
  LET d(k, m) == (srcC[k][1] - tgtC[m][1]) * (srcC[k][1] - tgtC[m][1])
               + (srcC[k][2] - tgtC[m][2]) * (srcC[k][2] - tgtC[m][2])
  IN [k \in Clusters |->
        CHOOSE m \in Clusters :
          \A o \in Clusters : d(k, m) < d(k, o) \/ (d(k, m) = d(k, o) /\ m <= o)]

\* matchCentroids: rank both centroid sets by angle, pair equal ranks
matchCentroids(srcC, tgtC) ==
  LET srcRanked == sortByAngle(srcC, K, SumOver(srcC, 1, K), SumOver(srcC, 2, K))
      tgtRanked == sortByAngle(tgtC, K, SumOver(tgtC, 1, K), SumOver(tgtC, 2, K))
  IN [k \in Clusters |-> tgtRanked[CHOOSE rank \in Clusters : srcRanked[rank] = k]]

\* tgtCluster: per target centroid, its member indices in ascending order
RECURSIVE Members(_, _, _)
Members(labels, c, j) ==
  IF j = OT_N THEN <<>>
  ELSE (IF labels[j] = c THEN <<j>> ELSE <<>>) \o Members(labels, c, j + 1)

tgtCluster(labels) == [c \in Clusters |-> Members(labels, c, 0)]

\* the target positions handed to assignTargetsGpu: a cloud of distinct points
tgtPos == [j \in OtAtoms |-> << j - 1, 1 - j >>]

\* the pool index read by the round-robin without the wrap
poolIndexNoWrap(cursor, pool) == cursor

\* tgtCursor[tgtC] % pool.length
poolIndex(cursor, pool) == cursor % Len(pool)

\* matchCentroids on its own, over every pair of centroid sets
MatchInit ==
  /\ Parked
  /\ lib \in [pc : {"match"}, srcC : [Clusters -> CentroidPoints],
             tgtC : [Clusters -> CentroidPoints]]

MatchCentroids ==
  /\ lib.pc = "match"
  /\ lib' = [pc |-> "matched", srcC |-> lib.srcC, tgtC |-> lib.tgtC,
            map |-> matchCentroids(lib.srcC, lib.tgtC)]
  /\ UNCHANGED <<hostVars, queue, dev>>

\* both runKMeans calls have resolved
OtInit ==
  /\ Parked
  /\ lib \in [pc : {"clustered"}, src : KMeansResults, tgt : KMeansResults]

\* lines 289-299: centroidMap, tgtCluster, the cursors and the result array
OtMatch ==
  /\ lib.pc = "clustered"
  /\ lib' = [pc |-> "pairing", src |-> lib.src, tgt |-> lib.tgt,
            centroidMap |-> matchCentroids(lib.src.centroids, lib.tgt.centroids),
            tgtCluster |-> tgtCluster(lib.tgt.labels),
            tgtCursor |-> [c \in Clusters |-> 0],
            result |-> <<>>,
            picked |-> <<>>,     \* history: the pool index read, -1 on fallback
            i |-> 0]
  /\ UNCHANGED <<hostVars, queue, dev>>

\* one iteration of the pairing loop whose matched pool is empty
OtPairFallback ==
  /\ lib.pc = "pairing" /\ lib.i < OT_N
  /\ LET tgtC == lib.centroidMap[lib.src.labels[lib.i]] IN
     /\ Len(lib.tgtCluster[tgtC]) = 0
     /\ lib' = [lib EXCEPT !.result = Append(@, lib.tgt.centroids[tgtC]),
                         !.picked = Append(@, -1),
                         !.i = @ + 1]
  /\ UNCHANGED <<hostVars, queue, dev>>

\* one iteration of the pairing loop that reads its pool
OtPair ==
  /\ lib.pc = "pairing" /\ lib.i < OT_N
  /\ LET tgtC == lib.centroidMap[lib.src.labels[lib.i]]
         pool == lib.tgtCluster[tgtC]
         at == poolIndex(lib.tgtCursor[tgtC], pool)
     IN /\ Len(pool) # 0
        /\ lib' = [lib EXCEPT
                    !.result = Append(@, IF at < Len(pool) THEN tgtPos[pool[at + 1]]
                                         ELSE <<>>),   \* NaN from undefined
                    !.picked = Append(@, at),
                    !.tgtCursor[tgtC] = @ + 1,
                    !.i = @ + 1]
  /\ UNCHANGED <<hostVars, queue, dev>>

\* return result
OtReturn ==
  /\ lib.pc = "pairing" /\ lib.i = OT_N
  /\ lib' = [lib EXCEPT !.pc = "returned"]
  /\ UNCHANGED <<hostVars, queue, dev>>

\* ------------------------------------------- registry.js, taken on its own
\* the characters typed strings are built from
InputChars == {"d", "n", "a", "D", "N", "A", " "}

RECURSIVE Strings(_)
Strings(n) ==
  IF n = 0 THEN { <<>> }
  ELSE LET shorter == Strings(n - 1)
       IN shorter \cup { Append(t, c) : t \in { u \in shorter : Len(u) = n - 1 },
                                        c \in InputChars }

\* names a user can type: the registry's names and aliases, the names every
\* object literal inherits, and names the registry does not know
NamedInputs ==
  SeqRange(SHAPE_NAMES) \cup { ALIASES[i][1] : i \in 1..Len(ALIASES) }
    \cup OBJECT_PROTO_KEYS
    \cup { <<" ","D","N","A"," ">>, <<"h","e","l","i","x">>,
           <<"g","i","b","b","e","r","i","s","h">>,
           <<"C","o","n","s","t","r","u","c","t","o","r">>,
           <<"r","o">>, <<"s","t","a","r","6","x">> }

Inputs == Strings(InputLen) \cup NamedInputs

ResolveInit == Parked /\ lib \in [pc : {"input"}, input : Inputs]

\* canonical = resolveShape(name)
Resolve ==
  /\ lib.pc = "input"
  /\ lib' = [pc |-> "resolved", input |-> lib.input,
             canonical |-> resolveShape(lib.input)]
  /\ UNCHANGED <<hostVars, queue, dev>>

\* resolveShape applied to its own result
ResolveAgain ==
  /\ lib.pc = "resolved"
  /\ lib' = [pc |-> "again", input |-> lib.input, canonical |-> lib.canonical,
             again |-> resolveShape(lib.canonical)]
  /\ UNCHANGED <<hostVars, queue, dev>>

\* goal = getShape(canonical)
GetShape ==
  /\ lib.pc = "again"
  /\ lib' = [pc |-> "goal", input |-> lib.input, canonical |-> lib.canonical,
             again |-> lib.again, goal |-> getShape(lib.canonical)]
  /\ UNCHANGED <<hostVars, queue, dev>>

\* ------------------------------------ sampleFromDensity, taken on its own
\* cell indices of a density grid, row-major
Cells == 0..(GRID_SIZE * GRID_SIZE - 1)

\* density values, in units of one third
Densities == {0, 1, 3}

DensityGrids == [Cells -> Densities]

\* cumsum after cell i, times total: cdf[i] = Cumulative(g, i) / total
RECURSIVE Cumulative(_, _)
Cumulative(g, i) == IF i < 0 THEN 0 ELSE g[i] + Cumulative(g, i - 1)

\* the binary search of lines 233-238; u is r * U_STEPS, and cdf[mid] < r is
\* compared exactly
RECURSIVE cdfSearch(_, _, _, _)
cdfSearch(g, u, lo, hi) ==
  IF lo < hi
    THEN LET mid == (lo + hi) \div 2
             total == Cumulative(g, GRID_SIZE * GRID_SIZE - 1)
         IN IF Cumulative(g, mid) * U_STEPS < u * total
              THEN cdfSearch(g, u, mid + 1, hi)
              ELSE cdfSearch(g, u, lo, mid)
    ELSE lo

SampleInit == Parked /\ lib \in [pc : {"grid"}, grid : DensityGrids]

\* total === 0: every atom is scattered over the seed box
SampleScatter ==
  /\ lib.pc = "grid"
  /\ Cumulative(lib.grid, GRID_SIZE * GRID_SIZE - 1) = 0
  /\ \E x \in {-SEED_MAX, 0, SEED_MAX}, y \in {-SEED_MAX, 0, SEED_MAX} :
       lib' = [pc |-> "scattered", grid |-> lib.grid, out |-> <<x, y>>]
  /\ UNCHANGED <<hostVars, queue, dev>>

\* total > 0: the cdf is built and the sampling loop entered
SampleBuildCdf ==
  /\ lib.pc = "grid"
  /\ Cumulative(lib.grid, GRID_SIZE * GRID_SIZE - 1) > 0
  /\ lib' = [pc |-> "sampling", grid |-> lib.grid, i |-> 0,
             u |-> 0, lo |-> 0, out |-> <<0, 0>>]
  /\ UNCHANGED <<hostVars, queue, dev>>

\* one iteration of the sampling loop, with the three Math.random() values
SampleDraw(u, rx, ry) ==
  /\ lib.pc = "sampling" /\ lib.i < NAtoms
  /\ LET lo == cdfSearch(lib.grid, u, 0, GRID_SIZE * GRID_SIZE - 1)
         row == lo \div GRID_SIZE
         col == lo % GRID_SIZE
     IN lib' = [lib EXCEPT !.i = @ + 1, !.u = u, !.lo = lo,
                           !.out = << sampleCoord(col, rx), sampleCoord(row, ry) >>]
  /\ UNCHANGED <<hostVars, queue, dev>>

\* return out
SampleReturn ==
  /\ lib.pc = "sampling" /\ lib.i = NAtoms
  /\ lib' = [lib EXCEPT !.pc = "sampled"]
  /\ UNCHANGED <<hostVars, queue, dev>>

\* ------------------------------------------------ nca.js, taken on its own
\* what /nca_weights.json holds under one of the four required names: nothing
\* (or a falsy value), a truthy value that is no array, an array of another
\* shape than the network's, an array of the network's shape
Forms == {"absent", "scalar", "misshaped", "shaped"}

\* the weight file as the browser finds it: fetch rejects, the response is
\* not ok, the body is no JSON, or the body is a JSON object
Assets ==
  [kind : {"unreachable", "missing", "malformed"},
   w1 : {"absent"}, b1 : {"absent"}, w2 : {"absent"}, b2 : {"absent"}]
  \cup [kind : {"json"}, w1 : Forms, b1 : Forms, w2 : Forms, b2 : Forms]

\* new Float32Array(x) of a number or an array of another shape has another
\* length than the network's; only .flat() of a non-array throws
Length(form) == IF form = "shaped" THEN "shaped" ELSE "misshaped"

\* fetchWeights: null unless the file is there, parses, holds the four names
\* and .flat() exists on w1 and w2
fetchWeights(asset) ==
  IF /\ asset.kind = "json"
     /\ \A f \in {asset.w1, asset.b1, asset.w2, asset.b2} : f # "absent"
     /\ asset.w1 # "scalar" /\ asset.w2 # "scalar"
    THEN [loaded |-> TRUE, w1 |-> Length(asset.w1), b1 |-> Length(asset.b1),
          w2 |-> Length(asset.w2), b2 |-> Length(asset.b2)]
    ELSE [loaded |-> FALSE, w1 |-> "absent", b1 |-> "absent",
          w2 |-> "absent", b2 |-> "absent"]

NcaInit == Parked /\ lib \in [pc : {"fetch"}, asset : Assets]

\* const weights = await fetchWeights()
FetchWeights ==
  /\ lib.pc = "fetch"
  /\ lib' = [pc |-> "fetched", asset |-> lib.asset,
             weights |-> fetchWeights(lib.asset)]
  /\ UNCHANGED <<hostVars, queue, dev>>

\* weights is not null and buildMLP resolves
BuildMLP ==
  /\ lib.pc = "fetched" /\ lib.weights.loaded
  /\ lib' = [pc |-> "built", asset |-> lib.asset, weights |-> lib.weights,
             mode |-> "mlp", returned |-> "mlp", ran |-> <<>>]
  /\ UNCHANGED <<hostVars, queue, dev>>

\* weights is null, or buildMLP rejects (a pipeline fails to compile) and the
\* catch block lets buildNCA go on: return buildRDS(device)
BuildRDS ==
  /\ lib.pc = "fetched"
  /\ lib' = [pc |-> "built", asset |-> lib.asset, weights |-> lib.weights,
             mode |-> "rds", returned |-> "rds", ran |-> <<>>]
  /\ UNCHANGED <<hostVars, queue, dev>>

\* runNCA: nca.mode === 'mlp' ? runMLP(...) : runRDS(...)
RunNCA ==
  /\ lib.pc = "built" /\ Len(lib.ran) < MaxRuns
  /\ lib' = [lib EXCEPT !.ran = Append(@, IF lib.mode = "mlp" THEN "mlp" ELSE "rds")]
  /\ UNCHANGED <<hostVars, queue, dev>>

\* ------------------------------------- cs_splat at one pixel, on its own
\* a u32 word is kept as two 16-bit limbs, hi * LIMB + lo
LIMB == SPEED_ONE + 1

\* atomicAdd on a u32 (x < 2^31): the sum modulo 2^32
atomicAdd(word, x) ==
  LET lo == word.lo + (x % LIMB)
      hi == word.hi + (x \div LIMB) + (lo \div LIMB)
  IN [hi |-> hi % LIMB, lo |-> lo % LIMB]

\* the same sum without the wrap: hi is not reduced
addExact(word, x) ==
  LET lo == word.lo + (x % LIMB)
  IN [hi |-> word.hi + (x \div LIMB) + (lo \div LIMB), lo |-> lo % LIMB]

\* what one atom adds to a pixel: a bilinear weight w and a speed su; a fast
\* atom on the pixel centre, and a slower one between two pixels
AtomsOnPixel ==
  { [w |-> WEIGHT_ONE, su |-> SPEED_ONE],
    [w |-> WEIGHT_ONE \div 2, su |-> SPEED_ONE \div 3] }

\* both accumulators as the frame's clears leave them
SplatInit ==
  /\ Parked
  /\ lib = [pc |-> "splat", n |-> 0, density_buf |-> 0,
            vel_buf |-> [hi |-> 0, lo |-> 0],
            velSum |-> [hi |-> 0, lo |-> 0]]   \* history: the sum not reduced

\* one more invocation of cs_splat lands on the pixel
SplatAdd(atom) ==
  /\ lib.pc = "splat" /\ lib.n < MaxOnPixel
  /\ lib' = [lib EXCEPT !.n = @ + 1,
                        !.density_buf = @ + atom.w,
                        !.vel_buf = atomicAdd(@, atom.su * atom.w),
                        !.velSum = addExact(@, atom.su * atom.w)]
  /\ UNCHANGED <<hostVars, queue, dev>>

\* the host alone: the queue and the device are left as constructed
Next ==
  \/ \E dt \in 0..MaxDt : Tick(dt) /\ UNCHANGED <<queue, dev, libVars>>
  \/ \E text \in Texts : Submit(text) /\ UNCHANGED <<queue, dev, libVars>>
  \/ Clear /\ UNCHANGED <<queue, dev, libVars>>
  \/ \E i \in 1..Len(tasks) : NcaDone(i) /\ UNCHANGED <<queue, dev, libVars>>
  \/ \E i \in 1..Len(tasks), assigned \in TargetArrays :
        OtDone(i, assigned) /\ UNCHANGED <<queue, dev, libVars>>

vars == <<hostVars, queue, dev, libVars>>

Spec == Init /\ [][Next]_vars

\* frame submissions handed over so far
FramesIssued ==
  dev.frames + Cardinality({ i \in 1..Len(queue) :
                              /\ queue[i].op = "submit"
                              /\ queue[i].passes[Len(queue[i].passes)].pass = "render" })

\* host and device together, for the first MaxFrames frames of the first pass
\* through the cycle and with at most MaxQueue commands waiting: what a handler
\* hands over joins the queue, and the device executes the queue in order
Enqueue(commands) ==
  /\ Len(queue) + Len(commands) <= MaxQueue
  /\ queue' = queue \o commands
  /\ UNCHANGED <<dev, libVars>>

FrameNext ==
  \/ \E dt \in 0..MaxDt :
        FramesIssued < MaxFrames /\ Tick(dt) /\ Enqueue(issued')
  \/ /\ shapeIdx + 1 < CycleLen
     /\ Clear /\ Enqueue(IF goToShapeRejects THEN <<>> ELSE issued')
  \/ \E i \in 1..Len(tasks) : NcaDone(i) /\ Enqueue(issued')
  \/ \E i \in 1..Len(tasks), assigned \in TargetArrays :
        OtDone(i, assigned) /\ Enqueue(issued')
  \/ DevWrite
  \/ \E field \in ForceFields : DevPhysics(field)
  \/ DevSplat
  \/ DevDecay
  \/ DevRender
  \/ DevCompute

FrameSpec == Init /\ [][FrameNext]_vars

\* one assignTargetsGpu call from the point where both k-means runs resolved
OtNext == OtMatch \/ OtPairFallback \/ OtPair \/ OtReturn

OtSpec == OtInit /\ [][OtNext]_vars

MatchSpec == MatchInit /\ [][MatchCentroids]_vars

\* initDevice: the device.lost promise resolves; its handler logs the reason
DeviceLost ==
  /\ lib.pc = "device" /\ ~lib.lost
  /\ lib' = [lib EXCEPT !.lost = TRUE, !.logged = @ + 1]
  /\ UNCHANGED <<hostVars, queue, dev>>

LostInit == HostInit /\ lib = [pc |-> "device", lost |-> FALSE, logged |-> 0]

\* FrameSpec with a device that can be lost: a lost device executes nothing
\* more, and what an await on it settles to is not followed; the handlers of
\* main.js do not read the device's state
LostNext ==
  \/ \E dt \in 0..MaxDt :
        FramesIssued < MaxFrames /\ Tick(dt) /\ Enqueue(issued')
  \/ /\ shapeIdx + 1 < CycleLen
     /\ Clear /\ Enqueue(IF goToShapeRejects THEN <<>> ELSE issued')
  \/ \E i \in 1..Len(tasks) : ~lib.lost /\ NcaDone(i) /\ Enqueue(issued')
  \/ \E i \in 1..Len(tasks), assigned \in TargetArrays :
        ~lib.lost /\ OtDone(i, assigned) /\ Enqueue(issued')
  \/ ~lib.lost /\ DevWrite
  \/ \E field \in ForceFields : ~lib.lost /\ DevPhysics(field)
  \/ ~lib.lost /\ DevSplat
  \/ ~lib.lost /\ DevDecay
  \/ ~lib.lost /\ DevRender
  \/ ~lib.lost /\ DevCompute
  \/ DeviceLost

LostSpec == LostInit /\ [][LostNext]_vars

\* the place in AUTO_CYCLE of a canonical name
CycleIndex(canonical) == CHOOSE k \in 0..(Len(AUTO_CYCLE) - 1) : AUTO_CYCLE[k + 1] = canonical

\* no auto-cycle transition has committed yet
CycleInit == Parked /\ lib = [pc |-> "cycle", last |-> -1]

\* Spec with a history of the auto-cycle: lib.last is the place in the cycle
\* of the shape the last committed auto-cycle transition morphed to
CycleNext ==
  \/ \E dt \in 0..MaxDt : Tick(dt) /\ UNCHANGED <<queue, dev, lib>>
  \/ \E text \in Texts : Submit(text) /\ UNCHANGED <<queue, dev, lib>>
  \/ Clear /\ UNCHANGED <<queue, dev, lib>>
  \/ \E i \in 1..Len(tasks) : NcaDone(i) /\ UNCHANGED <<queue, dev, lib>>
  \/ \E i \in 1..Len(tasks), assigned \in TargetArrays :
        /\ OtDone(i, assigned)
        /\ lib' = IF tasks[i].origin = "auto"
                    THEN [lib EXCEPT !.last = CycleIndex(tasks[i].canonical)]
                    ELSE lib
        /\ UNCHANGED <<queue, dev>>

CycleSpec == CycleInit /\ [][CycleNext]_vars

\* the splat pass at one pixel, for up to MaxOnPixel atoms landing on it
SplatNext == \E atom \in AtomsOnPixel : SplatAdd(atom)

SplatSpec == SplatInit /\ [][SplatNext]_vars

\* resolveShape and getShape over every input
ResolveNext == Resolve \/ ResolveAgain \/ GetShape

ResolveSpec == ResolveInit /\ [][ResolveNext]_vars

\* sampleFromDensity over every grid and every value of the random source
SampleNext ==
  \/ SampleScatter
  \/ SampleBuildCdf
  \/ \E u \in 0..(U_STEPS - 1), rx \in 0..(RAND_STEPS - 1), ry \in 0..(RAND_STEPS - 1) :
        SampleDraw(u, rx, ry)
  \/ SampleReturn

SampleSpec == SampleInit /\ [][SampleNext]_vars

\* buildNCA over every state of the weight file, and the runNCA calls after it
NcaNext == FetchWeights \/ BuildMLP \/ BuildRDS \/ RunNCA

NcaSpec == NcaInit /\ [][NcaNext]_vars

\* ------------------------------------------- runKMeans, taken on its own
KmPoints == 0..(KM_N - 1)
KmClusters == 0..(KM_K - 1)

\* the positions a cloud is drawn from, in units of 1 / FP
KmDomain == { <<-FP, 0>>, <<2 - FP, 1>>, <<FP, -FP>> }
KmClouds == [KmPoints -> KmDomain]

\* i32(x): conversion to integer truncates toward zero
Trunc(n, d) == IF n >= 0 THEN n \div d ELSE -((-n) \div d)

\* kmeans_update.wgsl: i32(pos[..] * SCALE), for a coordinate p / FP
FixedPoint(p) == Trunc(p * SCALE, FP)

\* a denominator every cluster size divides: centroid coordinates are kept
\* exactly, in units of 1 / (FP * SCALE * KmDenom)
RECURSIVE Factorial(_)
Factorial(n) == IF n = 0 THEN 1 ELSE n * Factorial(n - 1)
KmDenom == Factorial(KM_N)
KmExact(p) == << p[1] * SCALE * KmDenom, p[2] * SCALE * KmDenom >>

\* initC[k] = positions[k * step], step = Math.floor(OT_N / K)
initC(positions) == [k \in KmClusters |-> KmExact(positions[k * (KM_N \div KM_K)])]

\* kmeans_assign: best_k is the first k whose d2 is below every earlier one
kmeans_assign(pos, centroids) ==
  LET d2(i, k) == (KmExact(pos[i])[1] - centroids[k][1]) * (KmExact(pos[i])[1] - centroids[k][1])
                + (KmExact(pos[i])[2] - centroids[k][2]) * (KmExact(pos[i])[2] - centroids[k][2])
  IN [i \in KmPoints |->
        CHOOSE k \in KmClusters :
          /\ \A j \in KmClusters : d2(i, k) <= d2(i, j)
          /\ \A j \in KmClusters : j < k => d2(i, j) > d2(i, k)]

RECURSIVE KmSum(_, _, _, _)
KmSum(pos, labels, k, n) ==
  IF n = 0 THEN <<0, 0, 0>>
  ELSE LET rest == KmSum(pos, labels, k, n - 1) IN
       IF labels[n - 1] = k
         THEN << rest[1] + FixedPoint(pos[n - 1][1]),
                 rest[2] + FixedPoint(pos[n - 1][2]), rest[3] + 1 >>
         ELSE rest

\* kmeans_update: every point adds its fixed-point position and 1 to the
\* accumulators of its label
kmeans_update(pos, labels, acc) ==
  [k \in KmClusters |->
     << acc[k][1] + KmSum(pos, labels, k, KM_N)[1],
        acc[k][2] + KmSum(pos, labels, k, KM_N)[2],
        acc[k][3] + KmSum(pos, labels, k, KM_N)[3] >>]

\* kmeans_divide: sum / (SCALE * count), or the previous centroid when empty
kmeans_divide(acc, centroids) ==
  [k \in KmClusters |->
     IF acc[k][3] > 0
       THEN << acc[k][1] * FP * (KmDenom \div acc[k][3]),
               acc[k][2] * FP * (KmDenom \div acc[k][3]) >>
       ELSE centroids[k]]

\* ZEROS_I32, ZEROS_U32 for sum_x, sum_y and counts
ZEROS == [k \in KmClusters |-> <<0, 0, 0>>]

KmPass(name) == [op |-> "pass", name |-> name]

\* an iteration that leaves the accumulators as they are
clearAccumulatorsNot == <<>>

\* the three writeBuffer calls that open an iteration
clearAccumulators == << Write("sumXBuf", 0), Write("sumYBuf", 0), Write("countsBuf", 0) >>

\* one iteration of the loop: the clears, then one submission of three passes
iterCommands ==
  clearAccumulators \o << KmPass("assign"), KmPass("update"), KmPass("divide") >>

RECURSIVE Repeat(_, _)
Repeat(s, n) == IF n = 0 THEN <<>> ELSE s \o Repeat(s, n - 1)

\* a last submission that copies without assigning again
finalCommandsCopyOnly == << KmPass("copyCentroids"), KmPass("copyLabels") >>

\* encFinal: assign-final, then the two copies to the staging buffers
finalCommands ==
  << KmPass("assign-final"), KmPass("copyCentroids"), KmPass("copyLabels") >>

\* everything runKMeans hands to the queue before it awaits the readback
runKMeansCommands(positions) ==
  << Write("posBuf", positions), Write("centroidsBuf", initC(positions)) >>
    \o Repeat(iterCommands, K_ITERS) \o finalCommands

\* buildOT: buffers as created (zero-filled), nothing queued, no run yet
KmInit ==
  /\ Parked
  /\ lib = [pc |-> "kmeans", host |-> "idle", run |-> 0, queue |-> <<>>,
            posBuf |-> [i \in KmPoints |-> <<0, 0>>],
            centroidsBuf |-> [k \in KmClusters |-> <<0, 0>>],
            labelsBuf |-> [i \in KmPoints |-> 0],
            acc |-> ZEROS,
            centroidsStaging |-> [k \in KmClusters |-> <<0, 0>>],
            labelsStaging |-> [i \in KmPoints |-> 0],
            last |-> "none", iter |-> 0]

\* assignTargetsGpu calls runKMeans for the source cloud, then for the target
RunKMeans(positions) ==
  /\ lib.pc = "kmeans" /\ lib.host = "idle" /\ lib.run < 2
  /\ lib' = [lib EXCEPT !.host = "awaiting", !.run = @ + 1,
                        !.queue = runKMeansCommands(positions),
                        !.last = "none", !.iter = 0]
  /\ UNCHANGED <<hostVars, queue, dev>>

\* the queue executes the command at its head
KmExecute ==
  /\ lib.pc = "kmeans" /\ lib.queue # <<>>
  /\ LET c == lib.queue[1]
         rest == [lib EXCEPT !.queue = Tail(lib.queue)]
     IN lib' =
       IF c.op = "writeBuffer" THEN
         IF c.buf = "posBuf" THEN [rest EXCEPT !.posBuf = c.data]
         ELSE IF c.buf = "centroidsBuf" THEN [rest EXCEPT !.centroidsBuf = c.data]
         ELSE IF c.buf = "sumXBuf"
           THEN [rest EXCEPT !.acc = [k \in KmClusters |-> <<0, @[k][2], @[k][3]>>]]
         ELSE IF c.buf = "sumYBuf"
           THEN [rest EXCEPT !.acc = [k \in KmClusters |-> <<@[k][1], 0, @[k][3]>>]]
         ELSE [rest EXCEPT !.acc = [k \in KmClusters |-> <<@[k][1], @[k][2], 0>>]]
       ELSE IF c.name \in {"assign", "assign-final"}
         THEN [rest EXCEPT !.labelsBuf = kmeans_assign(lib.posBuf, lib.centroidsBuf),
                           !.last = c.name]
       ELSE IF c.name = "update"
         THEN [rest EXCEPT !.acc = kmeans_update(lib.posBuf, lib.labelsBuf, lib.acc),
                           !.last = c.name]
       ELSE IF c.name = "divide"
         THEN [rest EXCEPT !.centroidsBuf = kmeans_divide(lib.acc, lib.centroidsBuf),
                           !.last = c.name, !.iter = @ + 1]
       ELSE IF c.name = "copyCentroids"
         THEN [rest EXCEPT !.centroidsStaging = lib.centroidsBuf]
       ELSE [rest EXCEPT !.labelsStaging = lib.labelsBuf]
  /\ UNCHANGED <<hostVars, queue, dev>>

\* both mapAsync promises resolve once the queue has drained: runKMeans
\* returns { centroids, labels } read from the staging buffers
KmReturn ==
  /\ lib.pc = "kmeans" /\ lib.host = "awaiting" /\ lib.queue = <<>>
  /\ lib' = [lib EXCEPT !.host = IF lib.run = 2 THEN "done" ELSE "idle"]
  /\ UNCHANGED <<hostVars, queue, dev>>

KmSpec ==
  KmInit /\ [][ \/ \E positions \in KmClouds : RunKMeans(positions)
                \/ KmExecute
                \/ KmReturn ]_vars

\* ------------------------- kmeans_update: one accumulator, taken on its own
\* export const N = 2_000_000, export const SCALE = 1024.0
N_CONFIGURED == 2000000
SCALE_CONFIGURED == 1024
\* the other values the repository's files give: OT_N = 1_500_000 in
\* ot_gpu.js, N = 100_000 in buffers.js, SCALE = 16384.0 in kmeans_divide.wgsl
OT_N_CONFIGURED == 1500000
N_BUFFERS == 100000
SCALE_DIVIDE == 16384

\* the configurations applyConstants can inject into kmeans_update.wgsl:
\* %%N%% and %%SCALE%% are replaced by whatever constants.js holds, and
\* nothing between constants.js and createShaderModule looks at the values
Configurations ==
  [N : {N_BUFFERS, OT_N_CONFIGURED, N_CONFIGURED},
   SCALE : {SCALE_CONFIGURED, SCALE_DIVIDE}]

\* the accumulator of one centroid as the first clear leaves it; sum_x is an
\* i32 kept as the two 16-bit limbs of its bit pattern
UpdInit ==
  /\ Parked
  /\ lib \in { [pc |-> "update", config |-> c, added |-> 0,
                sum_x |-> [hi |-> 0, lo |-> 0],
                sumExact |-> [hi |-> 0, lo |-> 0]] : c \in Configurations }

\* BATCH more invocations of kmeans_update, all labelled with this centroid
\* and all at x = 1 / den: each adds i32(x * SCALE) to sum_x
UpdAdd(den) ==
  /\ lib.pc = "update" /\ lib.added < lib.config.N
  /\ LET size == Min(BATCH, lib.config.N - lib.added)
         ix == lib.config.SCALE \div den
     IN lib' = [lib EXCEPT !.added = @ + size,
                           !.sum_x = atomicAdd(@, size * ix),
                           !.sumExact = addExact(@, size * ix)]
  /\ UNCHANGED <<hostVars, queue, dev>>

UpdSpec == UpdInit /\ [][\E den \in {1, 2} : UpdAdd(den)]_vars

\* --------------------------------- cs_splat's bilinear weights, on their own
\* u32(fract(fx) * 256.0): the fractions a coordinate can give
WeightFractions == 0..(WEIGHT_ONE - 1)

\* w00, w10, w01, w11 = (wx * wy) >> 8u
bilinearWeights(wx1, wy1) ==
  LET wx0 == WEIGHT_ONE - wx1
      wy0 == WEIGHT_ONE - wy1
  IN << (wx0 * wy0) \div WEIGHT_ONE, (wx1 * wy0) \div WEIGHT_ONE,
        (wx0 * wy1) \div WEIGHT_ONE, (wx1 * wy1) \div WEIGHT_ONE >>

\* an invocation of cs_splat that has computed wx1 and wy1
WeightInit ==
  /\ Parked
  /\ lib \in [pc : {"weights"}, wx1 : WeightFractions, wy1 : WeightFractions,
              w : {<<>>}]

\* the invocation computes its four weights
WeightSplat ==
  /\ lib.pc = "weights" /\ lib.w = <<>>
  /\ lib' = [lib EXCEPT !.w = bilinearWeights(lib.wx1, lib.wy1)]
  /\ UNCHANGED <<hostVars, queue, dev>>

WeightSpec == WeightInit /\ [][WeightSplat]_vars

\* ------------------------------------ runMLP and runRDS, taken on their own
\* a state buffer holds what has been applied to it: one <<goal, step>> per
\* pass, with <<goal, SEEDED>> first when the seed was made from the goal; a
\* zero-filled buffer holds <<>>.  The RDS shader has no params uniform: its
\* passes see NO_PARAMS.
SEEDED == 0 - 2
NO_PARAMS == 0 - 1
Goals == {1, 2}

\* a slot that is 0 whatever the number of steps
finalSlotZero(steps) == 0

\* const finalSlot = NCA_STEPS & 1
finalSlot(steps) == steps % 2

StepPass(step) == [op |-> "step", bg |-> step % 2]

RECURSIVE mlpSteps(_)
mlpSteps(n) ==
  IF n = 0 THEN <<>>
  ELSE mlpSteps(n - 1) \o << Write("paramsBuf", n - 1), StepPass(n - 1) >>

\* runMLP up to its await: goal, zero seed into stateBufs[0], per step the
\* params write and one submission, then extract and copy to the readback
runMLPCommands(goal, steps) ==
  << Write("goalBuf", goal), Write("stateBufs0", <<>>) >>
    \o mlpSteps(steps)
    \o << [op |-> "extract", slot |-> finalSlot(steps)],
          [op |-> "copyAlpha"] >>

\* runRDS up to its await: goal, seed made from the goal into stateBufs[0],
\* one encoder with all the passes and the copy of the final state
runRDSCommands(goal, steps) ==
  << Write("goalBuf", goal), Write("stateBufs0", << <<goal, SEEDED>> >>) >>
    \o [k \in 1..steps |-> StepPass(k - 1)]
    \o << [op |-> "copyState", slot |-> finalSlot(steps)] >>

\* buildMLP / buildRDS: zero-filled buffers; the step count is fixed per build
PpInit ==
  /\ Parked
  /\ lib \in { [pc |-> "pingpong", mode |-> m, steps |-> n, host |-> "idle",
                run |-> 0, goal |-> 0, queue |-> <<>>,
                stateBufs |-> [s \in {0, 1} |-> <<>>], goalBuf |-> 0,
                paramsBuf |-> 0, alphaBuf |-> <<>>, readbackBuf |-> <<>>,
                log |-> <<>>] :
               m \in {"mlp", "rds"}, n \in 1..MaxNcaSteps }

\* runNCA(device, nca, goalGrid) up to the await of the readback
PpRun(goal) ==
  /\ lib.pc = "pingpong" /\ lib.host \in {"idle", "returned"} /\ lib.run < MaxRuns
  /\ lib' = [lib EXCEPT !.host = "awaiting", !.run = @ + 1, !.goal = goal,
                        !.log = <<>>,
                        !.queue = IF lib.mode = "mlp"
                                    THEN runMLPCommands(goal, lib.steps)
                                    ELSE runRDSCommands(goal, lib.steps)]
  /\ UNCHANGED <<hostVars, queue, dev>>

\* the queue executes the command at its head; a step pass bound to stepBGs
\* [bg] (bgs[bg]) reads stateBufs[bg] and writes stateBufs[1 - bg]
PpExecute ==
  /\ lib.pc = "pingpong" /\ lib.queue # <<>>
  /\ LET c == lib.queue[1]
         rest == [lib EXCEPT !.queue = Tail(lib.queue)]
         seen == IF lib.mode = "mlp" THEN lib.paramsBuf ELSE NO_PARAMS
     IN lib' =
       IF c.op = "writeBuffer" THEN
         IF c.buf = "goalBuf" THEN [rest EXCEPT !.goalBuf = c.data]
         ELSE IF c.buf = "paramsBuf" THEN [rest EXCEPT !.paramsBuf = c.data]
         ELSE [rest EXCEPT !.stateBufs[0] = c.data]
       ELSE IF c.op = "step" THEN
         [rest EXCEPT
            !.stateBufs[1 - c.bg] = Append(lib.stateBufs[c.bg], <<lib.goalBuf, seen>>),
            !.log = Append(@, [read |-> c.bg, write |-> 1 - c.bg, param |-> seen,
                               in |-> lib.stateBufs[c.bg]])]
       ELSE IF c.op = "extract" THEN [rest EXCEPT !.alphaBuf = lib.stateBufs[c.slot]]
       ELSE IF c.op = "copyAlpha" THEN [rest EXCEPT !.readbackBuf = lib.alphaBuf]
       ELSE [rest EXCEPT !.readbackBuf = lib.stateBufs[c.slot]]
  /\ UNCHANGED <<hostVars, queue, dev>>

\* mapAsync resolves once the queue has drained; the result is the readback
PpReturn ==
  /\ lib.pc = "pingpong" /\ lib.host = "awaiting" /\ lib.queue = <<>>
  /\ lib' = [lib EXCEPT !.host = "returned"]
  /\ UNCHANGED <<hostVars, queue, dev>>

PpSpec ==
  PpInit /\ [][(\E goal \in Goals : PpRun(goal)) \/ PpExecute \/ PpReturn]_vars

\* ------------------------------------------- main.js: a transition fails
\* a rejection that leaves the try block without a finally
TransitionFailsNoFinally(i) ==
  /\ i \in 1..Len(tasks)
  /\ tasks' = RemoveAt(tasks, i)
  /\ UNCHANGED <<morph, simData, userControlled, shapeIdx, transitioning,
                 cpuSource, cpuTarget, frame, hud, gpu, issued, userAsked>>

\* the promise goToShape awaits (runNCA or assignTargetsGpu) rejects, or
\* sampleFromDensity throws: control leaves the try block through finally,
\* goToShape's own promise rejects, and onSubmit's continuation never runs
TransitionFails(i) ==
  /\ i \in 1..Len(tasks)
  /\ transitioning' = FALSE
  /\ tasks' = RemoveAt(tasks, i)
  /\ UNCHANGED <<morph, simData, userControlled, shapeIdx, cpuSource, cpuTarget,
                 frame, hud, gpu, issued, userAsked>>

\* the host with transitions that can fail while suspended
FailSpec ==
  Init /\ [][ \/ Next
              \/ \E i \in 1..Len(tasks) :
                    TransitionFails(i) /\ UNCHANGED <<queue, dev, libVars>> ]_vars

\* ------------------------------------------ main.js: the auto-cycle, fair
\* the host with a user who gives at most MaxInputs inputs; lib counts them
LiveInit == HostInit /\ lib = [pc |-> "live", inputs |-> 0]

UserInput ==
  /\ lib.inputs < MaxInputs
  /\ lib' = [lib EXCEPT !.inputs = @ + 1]
  /\ UNCHANGED <<queue, dev>>

\* a frame whose clamped dt is above zero
LiveTick == \E dt \in 1..MaxDt : Tick(dt) /\ UNCHANGED <<queue, dev, libVars>>
\* the readbacks of runNCA and of assignTargetsGpu complete
LiveNcaDone == \E i \in 1..Len(tasks) : NcaDone(i) /\ UNCHANGED <<queue, dev, libVars>>
LiveOtDone ==
  \E i \in 1..Len(tasks), assigned \in TargetArrays :
    OtDone(i, assigned) /\ UNCHANGED <<queue, dev, libVars>>

LiveNext ==
  \/ LiveTick
  \/ \E text \in Texts : Submit(text) /\ UserInput
  \/ Clear /\ UserInput
  \/ LiveNcaDone
  \/ LiveOtDone

\* requestAnimationFrame(tick) is re-armed by every tick, and a mapAsync
\* promise is resolved once the queue has drained: each is taken if it stays
\* possible
LiveSpec ==
  /\ LiveInit /\ [][LiveNext]_vars
  /\ WF_vars(LiveTick) /\ WF_vars(LiveNcaDone) /\ WF_vars(LiveOtDone)

\* ------------------------------------------------------- properties (Spec)
Last(s) == s[Len(s)]

IsTick == \E dt \in 0..MaxDt : Tick(dt)
IsSubmit == \E text \in Texts : Submit(text)
IsCommit == \E i \in 1..Len(tasks), assigned \in TargetArrays : OtDone(i, assigned)

\* C1: at most one goToShape activation (NCA/OT run) is ever in flight, the flag
\* is set exactly while one is, and a goToShape call made while one is in flight
\* (from submit or clear) starts nothing, queues nothing and hands nothing to the
\* GPU; each activation ends in exactly one morph start
C1_OneTransitionInFlight ==
  [][ /\ Len(tasks) <= 1 /\ Len(tasks') <= 1
      /\ transitioning <=> (Len(tasks) = 1)
      /\ (transitioning /\ (IsSubmit \/ Clear))
            => (tasks' = tasks /\ issued' = issued /\ morph' = morph
                /\ cpuSource' = cpuSource /\ cpuTarget' = cpuTarget)
      /\ IsCommit => (Len(tasks) = 1 /\ tasks' = <<>> /\ ~transitioning') ]_vars

\* a clear arrived while the start-up transition was in flight and was dropped
C1_Witness ==
  /\ transitioning /\ Len(tasks) = 1
  /\ tasks[1].origin = "auto"
  /\ tasks[1].canonical = AUTO_CYCLE[1]
  /\ shapeIdx = 1
  /\ simData.has_targets = 0

SubmitInFlight == \E i \in 1..Len(tasks) : tasks[i].origin = "submit"

\* C2: from the step in which goToShape lets a submit in until the next clear,
\* no frame tick starts a transition or moves the cycle index
C2_AutoCycleSuppressed ==
  [][ (userAsked /\ IsTick)
        => (tasks' = tasks /\ shapeIdx' = shapeIdx
            /\ transitioning' = transitioning) ]_vars

\* what the flag does give: while a submit's activation is in flight or the
\* flag is set, no tick advances; the completion of a submit sets the flag and
\* shows the resolved name; only a clear unsets the flag
SuppressedWhileInFlightOrFlagged ==
  [][ /\ ((SubmitInFlight \/ userControlled) /\ IsTick)
            => (tasks' = tasks /\ shapeIdx' = shapeIdx
                /\ transitioning' = transitioning)
      /\ (IsCommit /\ SubmitInFlight)
            => (userControlled' /\ hud'.visible
                /\ hud'.response = tasks[1].canonical
                /\ hud'.status = tasks[1].canonical)
      /\ (userControlled /\ ~Clear) => userControlled' ]_vars

\* C3: a tick that starts a transition or moves the cycle index does so in a
\* frame that began in hold (has_targets = 1, morph.t = 1), with the
\* user-controlled flag false, nothing in flight, and the hold counter of that
\* frame at HOLD_DURATION or more; it starts the next shape of the cycle
C3_TickAdvanceOnlyInHold ==
  [][ (IsTick /\ (tasks' # tasks \/ shapeIdx' # shapeIdx
                  \/ transitioning' # transitioning))
        => /\ simData.has_targets = 1
           /\ morph.t = MORPH_DURATION
           /\ ~userControlled
           /\ ~transitioning /\ tasks = <<>>
           /\ morph'.hold >= HOLD_DURATION
           /\ shapeIdx' = (shapeIdx + 1) % CycleLen
           /\ Len(tasks') = 1
           /\ tasks'[1].canonical = AUTO_CYCLE[shapeIdx' + 1] ]_vars

\* the frame that auto-advanced: its commands follow the NCA submission
C3_Witness ==
  /\ transitioning /\ ~userControlled
  /\ simData.has_targets = 1 /\ morph.t = MORPH_DURATION
  /\ morph.hold >= HOLD_DURATION
  /\ Len(issued) = 5 /\ issued[1] = NcaSubmit
  /\ Last(issued).op = "submit"

\* C4 as claimed: every clear starts a transition to the next shape of the cycle
C4_ClearAlwaysStarts ==
  [][ Clear => /\ Len(tasks') = Len(tasks) + 1
               /\ Last(tasks').pc = "nca"
               /\ Last(tasks').canonical = AUTO_CYCLE[((shapeIdx + 1) % CycleLen) + 1]
    ]_vars

\* C4 (amended): every clear unsets the user-controlled flag and moves the cycle
\* index on by one; it starts a transition to that next shape exactly when no
\* transition is in flight, and otherwise starts nothing
C4_ClearAdvancesWhenIdle ==
  [][ Clear =>
        /\ ~userControlled'
        /\ shapeIdx' = (shapeIdx + 1) % CycleLen
        /\ IF transitioning
             THEN tasks' = tasks /\ transitioning' /\ issued' = issued
             ELSE /\ transitioning'
                  /\ tasks' = << [pc |-> "nca", origin |-> "auto",
                                  canonical |-> AUTO_CYCLE[shapeIdx' + 1]] >> ]_vars

\* a clear accepted after a user-controlled morph: the response is hidden and
\* the next shape of the cycle is growing
C4_Witness ==
  /\ ~userControlled /\ transitioning
  /\ ~hud.visible /\ hud.response # <<>>
  /\ hud.status = hud.response
  /\ Len(tasks) = 1 /\ tasks[1].pc = "nca" /\ tasks[1].origin = "auto"
  /\ hud.phase = <<"nca · growing">>

\* C5: a commit copies the old CPU target into the source, stores the assigned
\* positions as the target, writes both to the queue in that step, and resets
\* morph.t, hold and simData[3] to 0 and simData[2] to 1; at every moment the
\* queue-side source and target buffers equal the CPU mirrors, so every frame
\* submitted afterwards reads them
C5_CommitCopiesTargetToSource ==
  [][ /\ \A i \in 1..Len(tasks), assigned \in TargetArrays :
            OtDone(i, assigned) =>
              /\ \A a \in Atoms : /\ cpuSource'[a] = cpuTarget[a]
                                   /\ cpuTarget'[a] = assigned[a]
              /\ issued' = << Write("sourceBuf", cpuTarget),
                              Write("targetBuf", assigned) >>
              /\ morph' = [t |-> 0, hold |-> 0]
              /\ simData'.has_targets = 1 /\ simData'.morph_t = 0
      /\ gpu'.sourceBuf = cpuSource' /\ gpu'.targetBuf = cpuTarget' ]_vars

\* a commit made while the previous morph was under way: the uniform last
\* written still shows 0 < morph_t < 1
C5_Witness ==
  /\ morph.t = 0 /\ simData.has_targets = 1
  /\ gpu.simBuf.has_targets = 1
  /\ gpu.simBuf.morph_t > 0 /\ gpu.simBuf.morph_t < MORPH_DURATION
  /\ Len(issued) = 2 /\ issued[1].op = "writeBuffer"
  /\ issued[1].buf = "sourceBuf"
  /\ cpuSource # cpuTarget

\* C6: morph.t stays in [0,1] and hold is 0 while morph.t < 1; only a commit
\* lowers morph.t; a tick in morph raises it by dt / MORPH_DURATION capped at 1
\* and leaves hold alone; a tick in hold adds dt to hold; a tick in wander
\* changes neither; no other step touches them
C6_MorphTimeMonotone ==
  [][ /\ morph.t \in 0..MORPH_DURATION /\ morph'.t \in 0..MORPH_DURATION
      /\ simData'.morph_t \in 0..MORPH_DURATION
      /\ (morph.t < MORPH_DURATION) => morph.hold = 0
      /\ ~IsCommit => morph'.t >= morph.t
      /\ \A dt \in 0..MaxDt : Tick(dt) =>
            /\ (simData.has_targets = 1 /\ morph.t < MORPH_DURATION)
                  => /\ morph'.t = (IF morph.t + dt > MORPH_DURATION
                                      THEN MORPH_DURATION ELSE morph.t + dt)
                     /\ morph'.hold = morph.hold
            /\ (simData.has_targets = 1 /\ morph.t = MORPH_DURATION)
                  => morph'.hold = morph.hold + dt
            /\ simData.has_targets = 0 => morph' = morph
      /\ (~IsTick /\ ~IsCommit) => morph' = morph ]_vars

\* a morph that has reached 1 and is being held
C6_Witness ==
  /\ simData.has_targets = 1
  /\ morph.t = MORPH_DURATION /\ simData.morph_t = MORPH_DURATION
  /\ morph.hold > 0

\* -------------------------------------------------- properties (FrameSpec)
InNDC(p) == p[1] \in -FP..FP /\ p[2] \in -FP..FP
Abs(x) == IF x < 0 THEN -x ELSE x
Zero == [p \in Pixels |-> 0]
IsPhysics == \E field \in ForceFields : DevPhysics(field)

\* C7: every position in either atom buffer (seeded, or written by a physics
\* pass in wander or in morph mode) lies in [-1,+1]^2, and so does every
\* source and target position on the host and on the device
C7_PositionsInNDC ==
  \A i \in Atoms :
    /\ \A slot \in 0..1 : InNDC(dev.atomBufs[slot][i].pos)
    /\ InNDC(dev.sourceBuf[i]) /\ InNDC(dev.targetBuf[i])
    /\ InNDC(cpuSource[i]) /\ InNDC(cpuTarget[i])

\* one buffer was last written by a wander pass that left an atom on the
\* border, the other by a morph pass that left an atom strictly under way
C7_Witness ==
  \E slot \in 0..1 :
    /\ dev.mode[slot] = "wander" /\ dev.mode[1 - slot] = "morph"
    /\ \E i \in Atoms, c \in 1..2 : Abs(dev.atomBufs[slot][i].pos[c]) = FP
    /\ \E i \in Atoms : /\ dev.atomBufs[1 - slot][i].pos # dev.sourceBuf[i]
                        /\ dev.atomBufs[1 - slot][i].pos # dev.targetBuf[i]

\* C8: a physics pass in morph mode writes, for every atom, the blend of
\* source[i] and target[i] at s = t*t*(3-2t) (to the nearest fixed-point
\* value); at morph_t = 0 that is source[i], at morph_t = 1 it is target[i]
\* with zero velocity; and whatever atom the pass had read, it would have
\* written the same
C8_MorphInterpolates ==
  [][ \A field \in ForceFields :
        (DevPhysics(field) /\ dev.simBuf.has_targets = 1) =>
          LET m == dev.simBuf.morph_t
              M == MORPH_DURATION
              s == m * m * (3 * M - 2 * m)
          IN \A i \in Atoms :
               LET out == dev'.atomBufs[HeadPass.bg.dst][i]
                   sp  == dev.sourceBuf[i]
                   tp  == dev.targetBuf[i]
               IN /\ \A c \in 1..2 :
                       2 * Abs(M * M * M * out.pos[c]
                               - (sp[c] * (M * M * M - s) + tp[c] * s)) <= M * M * M
                  /\ (m = 0) => out.pos = sp
                  /\ (m = M) => (out.pos = tp /\ out.vel = <<0, 0>>)
                  /\ \A x, y \in {-FP, 0, FP}, v \in {0, MAX_VEL} :
                       cs_main([pos |-> <<x, y>>, vel |-> <<v, -v>>], dev.simBuf,
                               sp, tp, field[i]) = out ]_vars

\* a physics pass has just run with morph_t = 1 on a source and a target that
\* differ for every atom: what it wrote is the target, at rest
C8_Witness ==
  /\ HeadIs("splat")
  /\ dev.simBuf.has_targets = 1 /\ dev.simBuf.morph_t = MORPH_DURATION
  /\ \A i \in Atoms : /\ dev.sourceBuf[i] # dev.targetBuf[i]
                      /\ dev.atomBufs[dev.written][i]
                           = [pos |-> dev.targetBuf[i], vel |-> <<0, 0>>]

\* the frame submissions waiting in the queue with their physics pass still to run
FrameSubmitAt(k) ==
  /\ queue[k].op = "submit"
  /\ queue[k].passes[1].pass = "physics"

\* C9: every frame submission in the queue is directly preceded by the writes
\* that zero density_buf and vel_buf (or they have been executed and the buffer
\* is zero), so both accumulators are zero when a splat pass begins, and when
\* the decay and render passes begin they hold exactly what this frame's splat
\* added for the buffer physics wrote in this frame
C9_AccumulatorsClearedEachFrame ==
  /\ \A k \in 1..Len(queue) :
       FrameSubmitAt(k) =>
         /\ IF k >= 2 THEN queue[k - 1] = Write("velBuf", Zero)
                      ELSE dev.velBuf = Zero
         /\ IF k >= 3 THEN queue[k - 2] = Write("densityBuf", Zero)
                      ELSE dev.densityBuf = Zero
  /\ HeadIs("splat") => (dev.densityBuf = Zero /\ dev.velBuf = Zero)
  /\ (HeadIs("decay") \/ HeadIs("render")) =>
       /\ dev.writtenIn = dev.frames
       /\ dev.densityBuf = cs_splat_density(dev.atomBufs[dev.written], Zero)
       /\ dev.velBuf = cs_splat_vel(dev.atomBufs[dev.written], Zero)

\* the splat pass of a later frame begins: the frames before it have left
\* their glow in the trail, and the atoms it reads are moving
C9_Witness ==
  /\ HeadIs("splat") /\ dev.frames >= 1
  /\ \E p \in Pixels : dev.trailBuf[p] > 0
  /\ \E i \in Atoms : dev.atomBufs[dev.written][i].vel # <<0, 0>>
  /\ dev.densityBuf = Zero /\ dev.velBuf = Zero

\* C10: the host's frame counter is the number of frames handed over; the
\* physics pass of frame f reads slot f mod 2 and writes the other slot, and
\* from the second frame on it reads the slot the previous physics pass wrote;
\* the splat pass of frame f reads the slot the physics pass of frame f wrote
C10_PingPong ==
  [][ /\ frame = FramesIssued % (2 ^ FrameBits)
      /\ IsPhysics =>
           /\ HeadPass.bg.src = dev.frames % 2
           /\ HeadPass.bg.dst = 1 - (dev.frames % 2)
           /\ HeadPass.bg.src # HeadPass.bg.dst
           /\ dev.written # -1 => (HeadPass.bg.src = dev.written
                                   /\ dev.writtenIn = dev.frames - 1)
           /\ dev'.atomBufs[HeadPass.bg.src] = dev.atomBufs[HeadPass.bg.src]
      /\ DevSplat =>
           /\ HeadPass.bg.atoms = dev.written
           /\ dev.writtenIn = dev.frames
           /\ dev.written = 1 - (dev.frames % 2) ]_vars

\* the third frame's splat is about to read slot 1, which physics has just
\* written from slot 0, and the two buffers differ
C10_Witness ==
  /\ HeadIs("splat") /\ dev.frames = 2
  /\ HeadPass.bg.atoms = 1 /\ dev.written = 1
  /\ dev.atomBufs[0] # dev.atomBufs[1]

\* --------------------------------------------------- properties (MatchSpec)
\* C11: the map returned by matchCentroids is a bijection on [0,K): every
\* source index has one image in [0,K) and every target index is the image
\* of exactly one source index, whatever the centroids are
C11_MapIsBijection ==
  lib.pc = "matched" =>
    /\ DOMAIN lib.map = Clusters
    /\ \A k \in Clusters : lib.map[k] \in Clusters
    /\ \A m \in Clusters : Cardinality({ k \in Clusters : lib.map[k] = m }) = 1

\* a match over centroid sets with two coincident source centroids and two
\* distinct target centroids on one ray from the mean
C11_Witness ==
  /\ lib.pc = "matched"
  /\ lib.srcC[0] = lib.srcC[1]
  /\ lib.tgtC = [k \in Clusters |-> IF k = 0 THEN <<0, 0>>
                                   ELSE IF k = 1 THEN <<1, 0>> ELSE <<3, 0>>]

\* ------------------------------------------------------ properties (OtSpec)
\* the atoms the pairing loop has been through
Paired == 0..(lib.i - 1)

\* C12: the pairing gives every source atom a target: the pool index read is
\* a valid index of the pool of the target cluster matched to the atom's
\* source cluster and the atom gets that member's position, or that pool is
\* empty and the atom gets the matched target centroid; the loop runs to the
\* end (empty source and target clusters included) and returns N targets
C12_EveryAtomPaired ==
  lib.pc \in {"pairing", "returned"} =>
    /\ Len(lib.result) = lib.i /\ Len(lib.picked) = lib.i
    /\ lib.pc = "returned" => lib.i = OT_N
    /\ \A i \in Paired :
         LET tgtC == lib.centroidMap[lib.src.labels[i]]
             pool == lib.tgtCluster[tgtC]
             at == lib.picked[i + 1]
         IN IF Len(pool) = 0
            THEN at = -1 /\ lib.result[i + 1] = lib.tgt.centroids[tgtC]
            ELSE /\ at \in 0..(Len(pool) - 1)
                 /\ lib.tgt.labels[pool[at + 1]] = tgtC
                 /\ lib.result[i + 1] = tgtPos[pool[at + 1]]

\* a finished pairing in which one atom fell back to a centroid and a cursor
\* has gone past the length of its pool
C12_Witness ==
  /\ lib.pc = "returned"
  /\ \E i \in OtAtoms : lib.picked[i + 1] = -1
  /\ \E c \in Clusters : Len(lib.tgtCluster[c]) > 0
                         /\ lib.tgtCursor[c] > Len(lib.tgtCluster[c])

\* ------------------------------------------------- properties (ResolveSpec)
Canonical == SeqRange(SHAPE_NAMES)
Circle == <<"c","i","r","c","l","e">>
Dna == <<"d","n","a">>

\* C13: for every input x, resolveShape(x) is a name in SHAPE_NAMES and
\* resolveShape(resolveShape(x)) = resolveShape(x)
C13_ResolveClosedIdempotent ==
  lib.pc = "again" => lib.canonical \in Canonical /\ lib.again = lib.canonical

\* resolveShape is idempotent on every input, and closed over the canonical
\* set on every input that does not normalise to an inherited property name
ResolveIdempotent ==
  lib.pc = "again" =>
    /\ lib.again = lib.canonical
    /\ Normalise(lib.input) \notin OBJECT_PROTO_KEYS => lib.canonical \in Canonical

\* the canonical names the normalised input is a prefix of
PrefixMatches(k) == { n \in Canonical : StartsWith(n, k) }

\* C14: resolve tries, in this order, the exact match of the lower-cased,
\* trimmed input in the canonical set, the exact match in the alias map, the
\* prefix match in the canonical set, and the default 'circle'; an input that
\* matches none of the first three resolves to 'circle' and the transition to
\* it gets its density grid, so that goToShape raises no error
C14_ResolutionOrder ==
  lib.pc = "goal" =>
    LET k == Normalise(lib.input) IN
    /\ IF k \in Canonical THEN lib.canonical = k
       ELSE IF AliasHas(k) THEN lib.canonical = AliasOf(k)
       ELSE IF PrefixMatches(k) # {} THEN lib.canonical \in PrefixMatches(k)
       ELSE lib.canonical = Circle
    /\ lib.goal = "grid"

\* the order of the rules holds, and every transition gets a density grid,
\* for every input that does not normalise to an inherited property name
ResolutionOrderOffInherited ==
  lib.pc = "goal" /\ Normalise(lib.input) \notin OBJECT_PROTO_KEYS =>
    C14_ResolutionOrder

\* C15: "DNA", "dna", " DNA " and "helix" all resolve to 'dna'
C15_DnaSpellings ==
  /\ lib.pc = "resolved"
  /\ lib.input \in { <<"D","N","A">>, <<"d","n","a">>, <<" ","D","N","A"," ">>,
                     <<"h","e","l","i","x">> }
  => lib.canonical = Dna

\* resolution ignores letter case and white space: an input resolves as its
\* normalised form does, and every spelling of dna with capitals and blanks
\* resolves to 'dna'
ResolveIgnoresCaseAndBlanks ==
  lib.pc = "resolved" =>
    /\ lib.canonical = resolveShape(Normalise(lib.input))
    /\ Normalise(lib.input) = Dna => lib.canonical = Dna

\* ------------------------------------------------- properties (SampleSpec)
\* the NDC footprint of a cell on one axis
InFootprint(x, cell) ==
  /\ x >= (2 * FP * cell) \div GRID_SIZE - FP
  /\ x < (2 * FP * (cell + 1)) \div GRID_SIZE - FP

\* a sample has been drawn
Drawn == lib.pc \in {"sampling", "sampled"} /\ lib.i > 0

\* C16: with a positive grid total, for every u in [0,1), u = 0 included, the
\* search returns a cell of positive density, and the sample lies within the
\* NDC footprint of that cell (so within the one cell of a one-cell grid)
C16_SamplesInPositiveCells ==
  Drawn =>
    /\ lib.grid[lib.lo] > 0
    /\ InFootprint(lib.out[1], lib.lo % GRID_SIZE)
    /\ InFootprint(lib.out[2], lib.lo \div GRID_SIZE)

\* the same for every u > 0, and for u = 0 when cell 0 has positive density
SamplesInPositiveCellsOffZero ==
  Drawn /\ (lib.u > 0 \/ lib.grid[0] > 0) => C16_SamplesInPositiveCells

\* --------------------------------------------------- properties (NcaSpec)
\* the weight file is there, parses, and holds the four arrays in the
\* network's shapes
LoadedSuccessfully(asset) ==
  /\ asset.kind = "json"
  /\ \A f \in {asset.w1, asset.b1, asset.w2, asset.b2} : f = "shaped"

\* C17: buildNCA selects MLP only if the weights were loaded successfully and
\* RDS in every other case (file missing, fetch or parse failure, a required
\* field absent, arrays of the wrong shape); in each case buildNCA returns a
\* handle, and the mode selected stays the mode of every later runNCA
C17_BackendSelection ==
  lib.pc = "built" =>
    /\ lib.mode = "mlp" => LoadedSuccessfully(lib.asset)
    /\ ~LoadedSuccessfully(lib.asset) => lib.mode = "rds"
    /\ lib.mode = lib.returned
    /\ \A n \in 1..Len(lib.ran) : lib.ran[n] = lib.returned

\* the same for every weight file but those fetchWeights takes although an
\* array has another length than the network's
BackendSelectionOffMisshaped ==
  /\ lib.pc = "built"
  /\ fetchWeights(lib.asset).loaded => LoadedSuccessfully(lib.asset)
  => C17_BackendSelection

\* --------------------------------------------------- properties (LostSpec)
\* C18: after the device-lost event the event is logged and no handler hands
\* a frame submission or a transition submission to the queue
C18_NoWorkAfterDeviceLost ==
  [][/\ lib.lost => queue' = queue
     /\ lib'.lost => lib'.logged = 1]_vars

\* the event is logged, once
DeviceLostLogged == [](lib.lost => lib.logged = 1)

\* --------------------------------------------------- properties (SplatSpec)
\* 65535 * d in limbs (not reduced), for d >= 0
TimesSpeedOne(d) ==
  [hi |-> d - ((d + LIMB - 1) \div LIMB), lo |-> (LIMB - (d % LIMB)) % LIMB]

LimbsLE(a, b) == a.hi < b.hi \/ (a.hi = b.hi /\ a.lo <= b.lo)

\* C19: after a splat pass, whatever number of atoms landed on the pixel at
\* whatever speed, vel_buf[p] has not wrapped modulo 2^32 (density_buf[p] is
\* far below 2^32 here) and vel_buf[p] <= 65535 * density_buf[p], both
\* accumulators being sums over the same weights
C19_SpeedAccumulator ==
  lib.pc = "splat" =>
    /\ lib.vel_buf = lib.velSum
    /\ lib.density_buf \div LIMB < LIMB
    /\ LimbsLE(lib.vel_buf, TimesSpeedOne(lib.density_buf))

\* the same as long as the speed sum is below 2^32, and then
\* sum(su * w) <= 65535 * sum(w) for the sums not reduced, always
SpeedAccumulatorBelowWrap ==
  lib.pc = "splat" =>
    /\ lib.velSum.hi < LIMB => C19_SpeedAccumulator
    /\ LimbsLE(lib.velSum, TimesSpeedOne(lib.density_buf))

\* --------------------------------------------------- properties (CycleSpec)
\* C20: the shapes the auto-cycle transitions morph to are AUTO_CYCLE[0],
\* AUTO_CYCLE[1], ... in order, wrapping around and skipping none: every
\* committed auto-cycle transition morphs to the name that follows the one
\* the previous committed auto-cycle transition morphed to
C20_AutoCycleInOrder ==
  [][ lib'.last # lib.last \/ (IsCommit /\ tasks[1].origin = "auto")
        => lib'.last = (lib.last + 1) % Len(AUTO_CYCLE) ]_vars

\* what the index does give: every auto-cycle transition that starts is the
\* one to AUTO_CYCLE[shapeIdx], and the index moves by one step at a time
AutoCycleFollowsIndex ==
  [][ /\ shapeIdx' \in {shapeIdx, (shapeIdx + 1) % Len(AUTO_CYCLE)}
      /\ (Len(tasks') > Len(tasks) /\ Last(tasks').origin = "auto")
           => Last(tasks').canonical = AUTO_CYCLE[shapeIdx' + 1] ]_vars

\* ------------------------------------------- properties (Spec), continued
\* C21: while a transition is executing, the HUD phase text is the phase of
\* that transition: 'nca · growing' from the start of the NCA run until it
\* completes, 'ot · k-means' from then until the OT assignment completes,
\* whatever frame ticks run in between
C21_PhaseTextOfTransition ==
  \A i \in 1..Len(tasks) :
    /\ tasks[i].pc = "nca" => hud.phase = <<"nca · growing">>
    /\ tasks[i].pc = "ot" => hud.phase = <<"ot · k-means">>

\* what setPhase does give: the step that starts the NCA run and the step
\* that starts the OT write the transition's text, and the text stays through
\* the ticks of a transition for as long as no targets are loaded
PhaseTextUntilNextTick ==
  /\ simData.has_targets = 0 => C21_PhaseTextOfTransition
  /\ [][ /\ (Len(tasks') > Len(tasks)) => hud'.phase = <<"nca · growing">>
         /\ (\E i \in 1..Len(tasks) : NcaDone(i))
               => hud'.phase = <<"ot · k-means">> ]_vars

\* ----------------------------------------------------- properties (KmSpec)
KmHeadIs(name) ==
  /\ lib.queue # <<>>
  /\ lib.queue[1].op = "pass"
  /\ lib.queue[1].name = name

\* C22: in each of the K_ITERS iterations of runKMeans the accumulators
\* sum_x, sum_y and counts are all zero when the accumulate pass begins, and
\* the passes take effect in the order assign, accumulate, divide: what the
\* accumulate pass leaves is the sum over this iteration's labels alone, with
\* nothing of an earlier iteration or of the preceding run (source cloud
\* before target cloud) in it
C22_AccumulatorsStartAtZero ==
  lib.pc = "kmeans" =>
    /\ lib.iter \in 0..K_ITERS
    /\ KmHeadIs("assign") => lib.last \in {"none", "divide"} /\ lib.iter < K_ITERS
    /\ KmHeadIs("update") =>
         /\ lib.last = "assign"
         /\ \A k \in KmClusters : lib.acc[k] = <<0, 0, 0>>
    /\ KmHeadIs("divide") => lib.last = "update"
    /\ KmHeadIs("assign-final") => lib.last = "divide" /\ lib.iter = K_ITERS
    /\ lib.last = "update" =>
         \A k \in KmClusters :
           /\ lib.acc[k][3] = Cardinality({i \in KmPoints : lib.labelsBuf[i] = k})
           /\ lib.acc[k] = KmSum(lib.posBuf, lib.labelsBuf, k, KM_N)

\* the last accumulate pass of the target cloud's run has summed a cloud
\* that differs from what the earlier passes summed
C22_Witness ==
  /\ lib.pc = "kmeans" /\ lib.run = 2
  /\ lib.last = "update" /\ lib.iter = K_ITERS - 1
  /\ \E k \in KmClusters : lib.acc[k][3] = KM_N - 1 /\ lib.acc[k][2] # 0
  /\ lib.centroidsStaging # lib.centroidsBuf

KmDist(i, k, centroids) ==
  (KmExact(lib.posBuf[i])[1] - centroids[k][1]) * (KmExact(lib.posBuf[i])[1] - centroids[k][1])
  + (KmExact(lib.posBuf[i])[2] - centroids[k][2]) * (KmExact(lib.posBuf[i])[2] - centroids[k][2])

KmReturned == lib.pc = "kmeans" /\ lib.run >= 1 /\ lib.host \in {"idle", "done"}

LabelsAreNearest ==
  \A i \in KmPoints :
    /\ lib.labelsStaging[i] \in KmClusters
    /\ \A j \in KmClusters :
         /\ KmDist(i, lib.labelsStaging[i], lib.centroidsStaging)
              <= KmDist(i, j, lib.centroidsStaging)
         /\ KmDist(i, j, lib.centroidsStaging)
              = KmDist(i, lib.labelsStaging[i], lib.centroidsStaging)
              => lib.labelsStaging[i] <= j

\* C23: the labels runKMeans returns are those of a final assign pass run
\* after the last divide: every point has one label in [0, K), the index of a
\* centroid nearest to it (the lowest index on ties) among the centroids
\* returned together with the labels
C23_LabelsOfFinalAssign ==
  KmReturned =>
    /\ lib.last = "assign-final" /\ lib.iter = K_ITERS
    /\ lib.centroidsStaging = lib.centroidsBuf
    /\ lib.labelsStaging = lib.labelsBuf
    /\ LabelsAreNearest

\* the target cloud's run has returned labels that use two clusters and
\* differ from those the first assign pass wrote for the seed centroids
C23_Witness ==
  /\ KmReturned /\ lib.run = 2
  /\ lib.labelsStaging # kmeans_assign(lib.posBuf, initC(lib.posBuf))
  /\ \E i, j \in KmPoints : lib.labelsStaging[i] # lib.labelsStaging[j]

\* on its own: the returned labels are nearest among the returned centroids
KmNearestOnly == KmReturned => LabelsAreNearest

\* ---------------------------------------------------- properties (UpdSpec)
\* the largest i32, 2^31 - 1, as limbs: an i32 sum of non-negative terms has
\* not overflowed as long as its high limb is below 2^15
FitsI32(word) == word.hi < LIMB \div 2

\* C24: with the configured N and SCALE the i32 accumulators cannot overflow
\* even when all N points, with coordinates up to 1, fall into one centroid:
\* N * SCALE * max_coord <= 2^31 - 1, and start-up lets no configuration
\* through that breaks this bound
C24_AccumulatorsCannotOverflow ==
  lib.pc = "update" =>
    /\ FitsI32(lib.sumExact)
    /\ lib.sum_x = lib.sumExact

\* what the configured values do give: with N and SCALE as constants.js (or
\* ot_gpu.js) holds them the sum of N terms of at most SCALE stays an i32
AccumulatorsFitAsConfigured ==
  (lib.pc = "update" /\ lib.config.SCALE = SCALE_CONFIGURED) =>
    /\ FitsI32(lib.sumExact)
    /\ lib.sum_x = lib.sumExact

\* ------------------------------------------------- properties (WeightSpec)
WeightSum == lib.w[1] + lib.w[2] + lib.w[3] + lib.w[4]

\* C25: for every pair of fractions wx1, wy1 in 0..255 the four bilinear
\* weights w00, w10, w01, w11 computed as (wx * wy) >> 8 sum to exactly 256
C25_WeightsSumTo256 ==
  (lib.pc = "weights" /\ lib.w # <<>>) => WeightSum = WEIGHT_ONE

\* what the shifts do give: each product loses its low eight bits, so the sum
\* is 256 less at most three, and exactly 256 when the atom sits on a pixel
\* row or column (a fraction of 0)
WeightsSumWithinThree ==
  (lib.pc = "weights" /\ lib.w # <<>>) =>
    /\ WeightSum \in (WEIGHT_ONE - 3)..WEIGHT_ONE
    /\ (lib.wx1 = 0 \/ lib.wy1 = 0) => WeightSum = WEIGHT_ONE
    /\ \A c \in 1..4 : lib.w[c] \in 0..WEIGHT_ONE

\* ------------------------------------------- properties (Spec), continued
\* C26: goToShape computes the OT assignment from the atoms' current
\* positions: the source positions handed to the OT engine are, for every
\* atom, the positions that become the source of the morph that results
C26_OtFromMorphSource ==
  [][ IsCommit => \A a \in Atoms : cpuSource'[a] = tasks[1].srcPos[a] ]_vars

\* what goToPositions does give: the morph starts from the previous target,
\* which is where the OT's source cloud lies only as long as no morph has
\* been committed before
MorphSourceIsPreviousTarget ==
  [][ IsCommit =>
        /\ cpuSource' = cpuTarget
        /\ gpu'.sourceBuf = cpuTarget
        /\ tasks[1].srcPos = cpuSource
        /\ simData.has_targets = 0 => cpuSource' = tasks[1].srcPos ]_vars

\* ----------------------------------------------------- properties (PpSpec)
\* what a run grown from the seed by n steps holds
RECURSIVE Grown(_, _, _)
Grown(mode, goal, n) ==
  IF n = 0 THEN (IF mode = "mlp" THEN <<>> ELSE << <<goal, SEEDED>> >>)
  ELSE Append(Grown(mode, goal, n - 1),
              <<goal, IF mode = "mlp" THEN n - 1 ELSE NO_PARAMS>>)

\* C27: the seed is written to state buffer 0; step k reads buffer k & 1 and
\* writes buffer 1 - (k & 1), and its dispatch sees its own index k in the
\* params uniform; the buffer extracted or read back, slot STEPS & 1, is the
\* buffer the last step wrote, for any STEPS >= 1
C27_PingPong ==
  lib.pc = "pingpong" =>
    /\ \A n \in 1..Len(lib.log) :
         /\ lib.log[n].read = (n - 1) % 2
         /\ lib.log[n].write = 1 - ((n - 1) % 2)
         /\ lib.mode = "mlp" => lib.log[n].param = n - 1
         /\ lib.log[n].in = Grown(lib.mode, lib.goal, n - 1)
    /\ lib.host = "returned" =>
         /\ Len(lib.log) = lib.steps
         /\ lib.log[lib.steps].write = lib.steps % 2
         /\ lib.readbackBuf = lib.stateBufs[lib.log[lib.steps].write]
         /\ lib.readbackBuf = Grown(lib.mode, lib.goal, lib.steps)

\* a second MLP run with an odd number of steps has returned what its last
\* step wrote into buffer 1
C27_Witness ==
  /\ lib.pc = "pingpong" /\ lib.host = "returned" /\ lib.run = 2
  /\ lib.mode = "mlp" /\ lib.steps % 2 = 1 /\ lib.steps > 1
  /\ Len(lib.log) = lib.steps /\ lib.log[lib.steps].param = lib.steps - 1
  /\ lib.readbackBuf = lib.stateBufs[1]
  /\ lib.readbackBuf # lib.stateBufs[0]

\* ------------------------------------------- properties (Spec), continued
\* C28: once clear() has been received the user-controlled flag stays false
\* until a later submit() call is made: no completion of a transition started
\* by a submit issued before the clear sets the flag back to true
C28_ClearedUntilNextSubmit ==
  [][ (~userControlled /\ ~userAsked /\ ~IsSubmit) => ~userControlled' ]_vars

\* what onSubmit does give: the flag is set by the completion of a transition
\* a submit started, whenever that completion comes, and by nothing else
FlagSetBySubmitCompletion ==
  [][ (~userControlled /\ userControlled')
        => (IsCommit /\ tasks[1].origin = "submit") ]_vars

\* --------------------------------------------------- properties (FailSpec)
\* a step in which a transition fails: while suspended, or within the call
\* (a submit that goToShape let in and that left nothing in flight)
FailsSuspended == \E i \in 1..Len(tasks) : TransitionFails(i)
FailsInCall == ~transitioning /\ tasks' = <<>> /\ userAsked' /\ IsSubmit

\* C30: if any step of a transition fails, the transitioning flag is cleared
\* and the morph state is left as it was before the call (morph_t, hold,
\* has_targets, the CPU mirrors, the GPU source and target buffers), the
\* user-controlled flag is not set, and later goToShape calls are accepted:
\* the guard of goToShape, the flag, lets the next call in
C30_FailureLeavesMorphState ==
  [][ (FailsSuspended \/ FailsInCall) =>
        /\ ~transitioning' /\ tasks' = <<>>
        /\ morph' = morph /\ simData' = simData
        /\ cpuSource' = cpuSource /\ cpuTarget' = cpuTarget
        /\ gpu' = gpu
        /\ userControlled' = userControlled ]_vars

\* the start-up transition failed during its OT: no targets were ever loaded,
\* nothing is in flight and the atoms still wander
C30_Witness ==
  /\ ~transitioning /\ tasks = <<>>
  /\ simData.has_targets = 0
  /\ hud.phase = <<"ot · k-means">>
  /\ ~userControlled
  /\ cpuTarget = cpuSource

\* --------------------------------------------------- properties (LiveSpec)
InMorph == simData.has_targets = 1 /\ morph.t < MORPH_DURATION
InHold == simData.has_targets = 1 /\ morph.t = MORPH_DURATION

====
